---------------------------- MODULE Spec2Model ----------------------------
(***************************************************************************)
(* State-machine model of the trejira task-tracking backend: the           *)
(* credential controllers (auth.controller.ts), the task controllers (the  *)
(* three versions of tasks.controller.ts kept in the repository), the      *)
(* socket.io gateway (websocket.service.ts) and the Google Calendar        *)
(* adapter (googleCalendar.service.ts).                                    *)
(*                                                                         *)
(* Every handler is an async function.  Node runs the code between two     *)
(* awaits atomically, so a handler is a process whose steps are: the       *)
(* effect of the awaited store / external call together with the code that *)
(* runs when it resumes, up to the next await.  Two handlers interleave    *)
(* only at these points.                                                   *)
(***************************************************************************)
EXTENDS Integers, Sequences, FiniteSets, TLC

VARIABLES
    users,      \* the User collection: sequence of documents, _id = index
    now,        \* the wall clock, in the seconds jsonwebtoken counts
    areq,       \* the credential requests made so far, with their responses
    controller, \* the version of tasks.controller.ts that is mounted
    middleware, \* the authentication middleware in front of /tasks
    tasks,      \* the Task collection: sequence of documents, _id = index
    calendar,   \* googleCalendar.service.ts: the module's client handle
    boot,       \* the initializeCalendarClient() call made at module load
    events,     \* the events of the shared Google calendar, id = index
    bcast,      \* what io.emit has sent to the connected clients
    treq,       \* the task requests made so far, with their responses
    socks       \* the socket.io connections attempted so far

authVars == <<users, now, areq>>
taskVars == <<controller, middleware, tasks, calendar, boot, events, bcast, treq,
              socks>>
vars == <<users, now, areq, controller, middleware, tasks, calendar, boot,
          events, bcast, treq, socks>>

---------------------------------------------------------------------------
(* Bounds of the model *)
MaxAuthReqs == 3      \* credential requests in one behaviour
MaxClock == 2         \* last clock value
RefreshTTL == 2       \* JWT_REFRESH_EXPIRES_IN, scaled to the model's clock
AccessTTL == 1        \* JWT_ACCESS_EXPIRES_IN, scaled to the model's clock
RecoveryWindow == 1   \* maxDisconnectionDuration, scaled to the model's clock
MaxSocks == 3         \* socket connections attempted in one behaviour
MaxListReqs == 1      \* list requests in one behaviour
MaxTaskReqs == 2      \* task requests in one behaviour

\* the Google accounts that log in
GoogleIds == {"g1"}

---------------------------------------------------------------------------
(* Tokens.  jwt.sign(payload, secret, {expiresIn}) adds iat = the current  *)
(* second and exp = iat + expiresIn and signs with HS256, which is         *)
(* deterministic: a token is a function of its secret, userId and iat.     *)
NoToken == [typ |-> "absent", uid |-> 0, iat |-> 0]
Garbage == [typ |-> "garbage", uid |-> 0, iat |-> 0]

signRefresh(uid, t) == [typ |-> "refresh", uid |-> uid, iat |-> t]
signAccess(uid, t) == [typ |-> "access", uid |-> uid, iat |-> t]

\* jwt.verify(token, secret): the signature first, then the expiry
\* (clockTimestamp >= exp throws TokenExpiredError).
jwtVerify(tok, typ, ttl, t) ==
    IF tok.typ # typ THEN "JsonWebTokenError"
    ELSE IF t >= tok.iat + ttl THEN "TokenExpiredError"
    ELSE "ok"

\* the email of the Google account: "g3" is a second account whose email is
\* the one of "g1"
emailOf(g) == IF g = "g3" THEN "g1" ELSE g
UserDoc(g) == [googleId |-> g, email |-> emailOf(g), refreshToken |-> NoToken]

\* a serialisation that keeps every field
toJSON_Whole(u) == u
\* user.model.ts 26-37: toObject() with refreshToken deleted (__v, _id and
\* id are not modelled); an absent field reads NoToken
toJSON(u) == [u EXCEPT !.refreshToken = NoToken]

\* User.findOne({ googleId }): the _id of the matching document, 0 if none
findUserByGoogleId(g) ==
    IF \E u \in DOMAIN users : users[u].googleId = g
    THEN CHOOSE u \in DOMAIN users : users[u].googleId = g
    ELSE 0

---------------------------------------------------------------------------
(* Credential requests.  A request record holds the handler's locals (uid,  *)
(* tok, isNew), its response (status, msg, cookie and, of the body,        *)
(* access for accessToken and user for the user object) and three          *)
(* history fields the properties read: seen, the persisted refreshToken    *)
(* the handler's store operation found; why, the branch that ended it; and *)
(* before, for a refresh, the requests answered before it started.         *)
NewAuthReq(op, gtok, cookie) ==
    [op |-> op, gtok |-> gtok, arg |-> cookie, pc |-> "start",
     uid |-> 0, tok |-> NoToken, isNew |-> FALSE,
     status |-> 0, msg |-> "", cookie |-> "kept", access |-> NoToken,
     user |-> UserDoc(""),
     seen |-> NoToken, why |-> "",
     before |-> IF op = "refresh"
                THEN {j \in DOMAIN areq : areq[j].pc = "done"} ELSE {}]

Respond(r, status, msg) == [r EXCEPT !.pc = "done", !.status = status, !.msg = msg]

\* Refresh tokens a client can hold: the cookies that login responses have
\* set so far.
DeliveredRefresh ==
    {areq[j].tok : j \in {k \in DOMAIN areq :
        areq[k].op = "login" /\ areq[k].pc = "done" /\ areq[k].cookie = "set"}}
\* Garbage stands for every cookie value the refresh secret does not verify
\* (a malformed string, an access token, a token signed with another key).
CookieInputs == {NoToken, Garbage} \cup DeliveredRefresh


---------------------------------------------------------------------------
(* googleLoginController, auth.controller.ts 26-132 *)

\* lines 27-48: the Google ID token is required and verified; the catch
\* block answers 401 for a verification error.
StartLogin(gtok) ==
    /\ Len(areq) < MaxAuthReqs
    /\ LET r == NewAuthReq("login", gtok, NoToken) IN
       areq' = Append(areq,
           IF gtok = "none" THEN Respond(r, 400, "Google ID token is required")
           ELSE IF gtok = "bad" THEN Respond(r, 401, "Invalid or expired Google token")
           ELSE [r EXCEPT !.pc = "find"])
    /\ UNCHANGED <<users, now, taskVars>>

\* lines 83-100: both tokens carry the user's _id and are signed now
signTokens(r, uid) ==
    [r EXCEPT !.uid = uid, !.tok = signRefresh(uid, now),
              !.access = signAccess(uid, now), !.pc = "save"]

\* lines 51-75 and 83-100: findOne by googleId; an existing user goes on to
\* the token generation, a missing one to User.create
LoginFind(i) ==
    /\ areq[i].op = "login" /\ areq[i].pc = "find"
    /\ LET u == findUserByGoogleId(areq[i].gtok) IN
       areq' = [areq EXCEPT ![i] =
           IF u = 0 THEN [@ EXCEPT !.pc = "create", !.isNew = TRUE]
           ELSE signTokens(@, u)]
    /\ UNCHANGED <<users, now, taskVars>>

\* User.create on a collection without unique indexes
LoginCreate_NoIndex(i) ==
    /\ areq[i].op = "login" /\ areq[i].pc = "create"
    /\ users' = Append(users, UserDoc(areq[i].gtok))
    /\ areq' = [areq EXCEPT ![i] = signTokens(@, Len(users) + 1)]
    /\ UNCHANGED <<now, taskVars>>
\* line 57: User.create; the unique indexes of the schema (user.model.ts
\* 17-19) reject a second document for the googleId or for the email, and
\* the catch block answers 500 (lines 128-130)
LoginCreate(i) ==
    /\ areq[i].op = "login" /\ areq[i].pc = "create"
    /\ IF \E u \in DOMAIN users :
             \/ users[u].googleId = areq[i].gtok
             \/ users[u].email = emailOf(areq[i].gtok)
       THEN /\ areq' = [areq EXCEPT ![i] =
                   Respond(@, 500, "Internal server error during Google login")]
            /\ UNCHANGED users
       ELSE /\ users' = Append(users, UserDoc(areq[i].gtok))
            /\ areq' = [areq EXCEPT ![i] = signTokens(@, Len(users) + 1)]
    /\ UNCHANGED <<now, taskVars>>

\* lines 102-118: user.refreshToken = refreshToken; save; then the cookie
\* and the body { accessToken, user }
loginResponse(r) ==
    [Respond(r, IF r.isNew THEN 201 ELSE 200, "") EXCEPT !.cookie = "set"]

LoginSave(i) ==
    /\ areq[i].op = "login" /\ areq[i].pc = "save"
    /\ \E stored \in BOOLEAN :
        IF stored
        THEN /\ users' = [users EXCEPT ![areq[i].uid].refreshToken = areq[i].tok]
             /\ areq' = [areq EXCEPT ![i] =
                    [loginResponse(@) EXCEPT
                        !.seen = users[areq[i].uid].refreshToken,
                        !.user = toJSON(users'[areq[i].uid])]]
        ELSE /\ UNCHANGED users
             /\ areq' = [areq EXCEPT ![i] =
                    [Respond(@, 500, "Internal server error during Google login")
                        EXCEPT !.access = NoToken]]
    /\ UNCHANGED <<now, taskVars>>

---------------------------------------------------------------------------
(* refreshTokenController, auth.controller.ts 135-212 *)

\* the catch block with the expired token answered 401 instead of 403
refreshCatch_Expired401(r, err) ==
    [(IF err = "TokenExpiredError" THEN Respond(r, 401, "Refresh token expired")
      ELSE IF err = "JsonWebTokenError" THEN Respond(r, 403, "Invalid refresh token")
      ELSE Respond(r, 500, "Internal server error during token refresh"))
     EXCEPT !.cookie = "cleared",
            !.why = IF err = "TokenExpiredError" THEN "expired"
                    ELSE IF err = "JsonWebTokenError" THEN "malformed" ELSE "store"]

\* lines 197-211: the catch block, after clearing the cookie
refreshCatch(r, err) ==
    [(IF err = "TokenExpiredError" THEN Respond(r, 403, "Refresh token expired")
      ELSE IF err = "JsonWebTokenError" THEN Respond(r, 403, "Invalid refresh token")
      ELSE Respond(r, 500, "Internal server error during token refresh"))
     EXCEPT !.cookie = "cleared",
            !.why = IF err = "TokenExpiredError" THEN "expired"
                    ELSE IF err = "JsonWebTokenError" THEN "malformed" ELSE "store"]

\* lines 136-152
StartRefresh(c) ==
    /\ Len(areq) < MaxAuthReqs
    /\ LET r == NewAuthReq("refresh", "none", c)
           v == jwtVerify(c, "refresh", RefreshTTL, now) IN
       areq' = Append(areq,
           IF c = NoToken THEN Respond(r, 401, "Refresh token not found")
           ELSE IF v # "ok" THEN refreshCatch(r, v)
           ELSE [r EXCEPT !.pc = "find", !.uid = c.uid])
    /\ UNCHANGED <<users, now, taskVars>>

\* line 158 without the store: every verified token is live
tokenIsLive_Signed(user, tok) == tok.typ = "refresh"
\* line 158 without the comparison with the presented token
tokenIsLive_NoCompare(user, tok) ==
    user.refreshToken # NoToken

\* line 158: the condition under which the presented token is live
tokenIsLive(user, tok) ==
    /\ user.refreshToken # NoToken
    /\ user.refreshToken = tok

\* lines 156-195: findById, the comparison with the stored value, and the
\* new access token
refreshDecide(r, user) ==
    IF ~tokenIsLive(user, r.arg)
    THEN [Respond(r, 403, "Invalid or revoked refresh token")
             EXCEPT !.cookie = "cleared", !.why = "mismatch", !.seen = user.refreshToken]
    ELSE [Respond(r, 200, "")
             EXCEPT !.access = signAccess(r.uid, now), !.seen = user.refreshToken,
                    !.user = toJSON(user)]

\* the handler with the rotation block of lines 178-187 switched on
RefreshFind_Rotate(i) ==
    /\ areq[i].op = "refresh" /\ areq[i].pc = "find"
    /\ \E found \in BOOLEAN :
        /\ areq' = [areq EXCEPT ![i] =
               IF found THEN refreshDecide(@, users[@.uid])
               ELSE refreshCatch(@, "Error")]
        /\ users' = IF found /\ tokenIsLive(users[areq[i].uid], areq[i].arg)
                    THEN [users EXCEPT ![areq[i].uid].refreshToken =
                                           signRefresh(areq[i].uid, now)]
                    ELSE users
    /\ UNCHANGED <<now, taskVars>>

RefreshFind(i) ==
    /\ areq[i].op = "refresh" /\ areq[i].pc = "find"
    /\ \E found \in BOOLEAN :
        areq' = [areq EXCEPT ![i] =
            IF found THEN refreshDecide(@, users[@.uid])
            ELSE refreshCatch(@, "Error")]
    /\ UNCHANGED <<users, now, taskVars>>

---------------------------------------------------------------------------
(* logoutController, auth.controller.ts 215-253 *)

\* lines 249-252: the finally block
logoutFinally(r) == Respond(r, 200, "Logged out successfully")

\* lines 216-236
StartLogout(c) ==
    /\ Len(areq) < MaxAuthReqs
    /\ LET r == NewAuthReq("logout", "none", c)
           v == jwtVerify(c, "refresh", RefreshTTL, now) IN
       areq' = Append(areq,
           IF c = NoToken THEN Respond(r, 204, "")
           ELSE IF v # "ok" THEN [logoutFinally(r) EXCEPT !.cookie = "cleared"]
           ELSE [r EXCEPT !.pc = "unset", !.uid = c.uid, !.cookie = "cleared"])
    /\ UNCHANGED <<users, now, taskVars>>

\* line 238 with the update dropped
unsetRefreshToken_Noop(us, uid) == us

\* line 238: User.findByIdAndUpdate(userId, { $unset: { refreshToken } })
unsetRefreshToken(us, uid) == [us EXCEPT ![uid].refreshToken = NoToken]

\* lines 238-252: the store update, or its error caught, then the finally
LogoutUnset(i) ==
    /\ areq[i].op = "logout" /\ areq[i].pc = "unset"
    /\ \E stored \in BOOLEAN :
        /\ users' = IF stored THEN unsetRefreshToken(users, areq[i].uid) ELSE users
        /\ areq' = [areq EXCEPT ![i] =
               [logoutFinally(@) EXCEPT
                   !.why = IF stored THEN "" ELSE "store",
                   !.seen = users[areq[i].uid].refreshToken]]
    /\ UNCHANGED <<now, taskVars>>

---------------------------------------------------------------------------
Tick ==
    /\ now < MaxClock
    /\ now' = now + 1
    /\ UNCHANGED <<users, areq, taskVars>>

---------------------------------------------------------------------------
(* authenticateWithJWT (part_008 14-57) and GET /users/me (api.ts 32-56)   *)

\* a middleware that also asks the store whether the user is logged in
authenticateWithJWT_Lookup(tok, t) ==
    IF tok = NoToken THEN [status |-> 401, uid |-> 0]
    ELSE IF jwtVerify(tok, "access", AccessTTL, t) # "ok" \/ tok.uid = 0
    THEN [status |-> 401, uid |-> 0]
    ELSE IF tok.uid \in DOMAIN users /\ users[tok.uid].refreshToken = NoToken
    THEN [status |-> 401, uid |-> 0]
    ELSE [status |-> 0, uid |-> tok.uid]
\* part_008 14-57: 401 without a Bearer token, for a token jwt.verify
\* rejects (expired, or not signed with the access secret) and for a payload
\* without userId; otherwise next() with req.userId (status 0)
authenticateWithJWT(tok, t) ==
    IF tok = NoToken THEN [status |-> 401, uid |-> 0]
    ELSE IF jwtVerify(tok, "access", AccessTTL, t) # "ok" \/ tok.uid = 0
    THEN [status |-> 401, uid |-> 0]
    ELSE [status |-> 0, uid |-> tok.uid]

\* the tokens a client can put in the Authorization header: none, one no
\* secret verifies, and every token a response has handed out, the refresh
\* token of the cookie included
BearerInputs ==
    {NoToken, Garbage}
        \cup {areq[j].access : j \in {k \in DOMAIN areq : areq[k].pc = "done"}}
        \cup DeliveredRefresh

\* api.ts 32-42: the middleware, then the handler up to User.findById; seen
\* records the refreshToken the store holds for the token's user while the
\* middleware runs
StartProfile(tok) ==
    /\ Len(areq) < MaxAuthReqs
    /\ LET r == [NewAuthReq("profile", "none", tok) EXCEPT
                    !.seen = IF tok.uid \in DOMAIN users
                             THEN users[tok.uid].refreshToken ELSE NoToken]
           a == authenticateWithJWT(tok, now) IN
       areq' = Append(areq,
           IF a.status # 0 THEN Respond(r, a.status, "Unauthorized")
           ELSE [r EXCEPT !.pc = "pfind", !.uid = a.uid])
    /\ UNCHANGED <<users, now, taskVars>>

\* api.ts 44-55: User.findById, then user.toJSON() as the body
ProfileFind(i) ==
    /\ areq[i].op = "profile" /\ areq[i].pc = "pfind"
    /\ \E found \in BOOLEAN :
        LET r == areq[i] IN
        areq' = [areq EXCEPT ![i] =
            IF ~found THEN Respond(r, 500, "Failed to retrieve user profile")
            ELSE IF r.uid \notin DOMAIN users THEN Respond(r, 404, "User not found")
            ELSE [Respond(r, 200, "") EXCEPT !.user = toJSON(users[r.uid])]]
    /\ UNCHANGED <<users, now, taskVars>>

Login == \E g \in {"none", "bad"} \cup GoogleIds : StartLogin(g)
LoginFindStep == \E i \in DOMAIN areq : LoginFind(i)
LoginCreateStep == \E i \in DOMAIN areq : LoginCreate(i)
LoginSaveStep == \E i \in DOMAIN areq : LoginSave(i)
Refresh == \E c \in CookieInputs : StartRefresh(c)
RefreshStep == \E i \in DOMAIN areq : RefreshFind(i)
Logout == \E c \in CookieInputs : StartLogout(c)
LogoutStep == \E i \in DOMAIN areq : LogoutUnset(i)

\* The server after start-up with an empty database.
InitAuth ==
    /\ users = <<>>
    /\ now = 0
    /\ areq = <<>>
    /\ controller = "p4"
    /\ middleware = "jwt"
    /\ tasks = <<>>
    /\ calendar = "null"
    /\ boot = "authorizing"
    /\ events = <<>>
    /\ bcast = <<>>
    /\ treq = <<>>
    /\ socks = <<>>

NextAuth ==
    \/ Login
    \/ LoginFindStep
    \/ LoginCreateStep
    \/ LoginSaveStep
    \/ Refresh
    \/ RefreshStep
    \/ Logout
    \/ LogoutStep
    \/ Tick

SpecAuth == InitAuth /\ [][NextAuth]_vars

---------------------------------------------------------------------------
(* Task requests.  The HTTP controllers run behind the authentication      *)
(* middleware, the socket.io handlers behind the handshake middleware      *)
(* (websocket.service.ts 23-49): both hand the handler the _id of the      *)
(* authenticated user.                                                      *)

\* the registered users of the task scenarios, and the ids they act under
TaskUsers == <<UserDoc("g1"), UserDoc("g2")>>
Subjects == DOMAIN TaskUsers

\* a lookup that answers every email with the first user
findUserByEmail_First(e) == 1
\* User.findOne({ email }): the _id of the matching document, 0 if none
findUserByEmail(e) ==
    IF \E u \in DOMAIN users : users[u].email = e
    THEN CHOOSE u \in DOMAIN users : users[u].email = e
    ELSE 0

(* A request body.  has is the set of keys the JSON object carries; the    *)
(* values of title, status and deadline are those of variant v; email is   *)
(* assignee.email ("" when the assignee object has none).  The key "$set"  *)
(* is the update operator object { $set: { owner } }, and the key          *)
(* nullAssignee is the key assignee with a falsy value (null, "", 0,       *)
(* false), as opposed to "assignee", which carries an object.              *)
nullAssignee == "assignee:null"
Body(has, v, email) == [has |-> has, v |-> v, email |-> email, assignee |-> 0]
titleOf(v) == v
statusOf(v) == IF v = 1 THEN "todo" ELSE "done"
\* deadlines in milliseconds after the epoch of the model's clock; the
\* variants from 3 on lie around a creation time of 1000 ms: before it, at
\* it, one millisecond below, at and one above creation + 5 minutes, and
\* well after
MirrorDeadlines ==
    LET s == 1000 IN
    <<500, s, s + 5 * 60 * 1000 - 1, s + 5 * 60 * 1000, s + 5 * 60 * 1000 + 1,
      s + 9 * 60 * 1000>>
deadlineOf(v) ==
    IF v = 1 THEN 9 * 60 * 1000
    ELSE IF v = 2 THEN 3 * 60 * 1000
    ELSE MirrorDeadlines[v - 2]
\* the user a body names as owner, and the event id it names
bodyOwner == 2
bodyEventId == 1

CreateBodies ==
    { Body({"title", "deadline"}, 1, ""),
      Body({"title", "deadline", "owner"}, 1, "") }
UpdateBodies ==
    { Body({"status"}, 2, ""),
      Body({"title"}, 2, ""),
      Body({"deadline"}, 2, ""),
      Body({"status", "owner"}, 2, ""),
      Body({"$set"}, 2, ""),
      Body({"assignee"}, 2, "g2"),
      Body({"assignee"}, 2, "") }

\* a Task document, task.model.ts 5-23; createdAt and updatedAt come from
\* timestamps: true (24), which sets both when the document is inserted
\* and updatedAt again with every save that writes and every update
NoDoc == [owner |-> 0, title |-> 0, status |-> "", deadline |-> 0,
          assignee |-> 0, cal |-> 0, createdAt |-> 0, updatedAt |-> 0,
          live |-> FALSE]

\* the keys of an update object applied to a document.  Mongoose casts
\* findByIdAndUpdate(id, obj): every top-level key that is not an operator
\* goes under $set, and a $set the object carries is kept as it is.
applyUpdate(doc, b) ==
    [doc EXCEPT
        !.title = IF "title" \in b.has THEN titleOf(b.v) ELSE @,
        !.status = IF "status" \in b.has THEN statusOf(b.v) ELSE @,
        !.deadline = IF "deadline" \in b.has THEN deadlineOf(b.v) ELSE @,
        !.owner = IF b.has \cap {"owner", "$set"} # {} THEN bodyOwner ELSE @,
        !.assignee = IF "assignee" \in b.has THEN b.assignee
                     ELSE IF nullAssignee \in b.has THEN 0 ELSE @,
        !.cal = IF "calendarEventId" \in b.has THEN bodyEventId ELSE @]

\* new Task({...clientTaskData, owner, assignee}): the schema's paths are
\* taken from the object, "$set" is not a path and strict mode drops it
newTask(uid, b) ==
    [applyUpdate([NoDoc EXCEPT !.status = "todo"],
                 [b EXCEPT !.has = @ \ {"$set", "owner", "assignee",
                                         nullAssignee}])
        EXCEPT !.owner = uid, !.assignee = b.assignee,
               !.createdAt = now * 1000, !.updatedAt = now * 1000,
               !.live = TRUE]

taskLive(t) == t \in DOMAIN tasks /\ tasks[t].live
\* the lookup without the owner in its filter
ownsTask_Anyone(t, uid) == taskLive(t)
\* Task.findOne({ _id, owner })
ownsTask(t, uid) == taskLive(t) /\ tasks[t].owner = uid

NewTaskReq(op, uid, tid, body) ==
    [op |-> op, uid |-> uid, tid |-> tid, body |-> body, pc |-> "start",
     status |-> 0, msg |-> "", doc |-> NoDoc, mod |-> {}, ev |-> 0,
     end |-> 0, mirror |-> "", res |-> "", log |-> <<>>, out |-> <<>>,
     list |-> <<>>]

Log(r, what) == [r EXCEPT !.log = Append(@, what)]

\* a handler step ends: its request record is stored and what it emitted
\* with io.emit reaches the clients
Commit(i, r) ==
    /\ treq' = [treq EXCEPT ![i] = r]
    /\ bcast' = bcast \o SubSeq(r.out, Len(treq[i].out) + 1, Len(r.out))

Arrive(r) ==
    /\ Len(treq) < MaxTaskReqs
    /\ treq' = Append(treq, r)
    /\ bcast' = bcast \o r.out

\* websocket.service.ts 184-196 and 198-209
broadcastTaskUpdate(r, doc) ==
    Log([r EXCEPT !.out = Append(@, [ev |-> "TASK_UPDATED", tid |-> r.tid,
                                     doc |-> doc])], "TASK_UPDATED")
broadcastTaskDelete(r) ==
    Log([r EXCEPT !.out = Append(@, [ev |-> "TASK_DELETED", tid |-> r.tid,
                                     doc |-> NoDoc])], "TASK_DELETED")
\* socket.emit('TASK_UPDATE_ERROR' / 'TASK_DELETE_ERROR', { message })
emitError(r, msg) == Respond(r, 0, msg)

---------------------------------------------------------------------------
(* What a handler does when the adapter call it awaited returns.           *)

\* createTask after createCalendarEvent returned null: part_004 97-102,
\* tasks.controller.ts 114-121, part_003 93-98
createFinish(r) ==
    Respond(IF controller = "p4" THEN broadcastTaskUpdate(r, r.doc) ELSE r,
            201, "")

\* updateTask after the calendar block: part_004 190-194,
\* tasks.controller.ts 204, part_003 226
updateFinish(r) ==
    Respond(IF controller = "p4" THEN broadcastTaskUpdate(r, r.doc) ELSE r,
            200, "")

\* an adapter that throws its failure into the handler's catch block
afterAdapter_Throw(r, ok) ==
    LET r1 == [r EXCEPT !.mirror = IF ok THEN "ok" ELSE "thrown"] IN
    IF ~ok THEN Respond(r1, 500, "Server error")
    ELSE CASE r.op = "create" -> [r1 EXCEPT !.doc.cal = r.ev, !.pc = "save2"]
           [] r.op = "update" -> updateFinish(r1)
           [] OTHER -> [r1 EXCEPT !.pc = "fad"]
\* the adapter returned (ok: an event id or true; otherwise null or false)
afterAdapter(r, ok) ==
    LET r1 == [r EXCEPT !.mirror = IF ok THEN "ok" ELSE "soft"] IN
    CASE r.op = "create" ->
           IF ok THEN [r1 EXCEPT !.doc.cal = r.ev, !.pc = "save2"]
           ELSE createFinish(r1)
      [] r.op = "update" -> updateFinish(r1)
      [] OTHER -> [r1 EXCEPT !.pc = "fad"]

---------------------------------------------------------------------------
(* The Google Calendar adapter, googleCalendar.service.ts.  calendar is    *)
(* the module's client handle ("null" or "client"); boot is the            *)
(* initializeCalendarClient() call of line 331: "unconfigured" when the    *)
(* configuration values of lines 18-33 are missing (every call then        *)
(* returns null at once), "authorizing" while its auth.authorize() is      *)
(* pending, "done" afterwards.                                              *)
configured == boot # "unconfigured"

minDurationMillis == 5 * 60 * 1000
\* a window that is only moved off a deadline at or before the start
clampEnd_NoMin(start, deadline) ==
    IF deadline <= start THEN start + minDurationMillis ELSE deadline
\* lines 89-100 and 216-230
clampEnd(start, deadline) ==
    IF deadline <= start THEN start + minDurationMillis
    ELSE IF deadline < start + minDurationMillis THEN start + minDurationMillis
    ELSE deadline

\* lines 103-124: the event createCalendarEvent inserts for a task
eventOf(doc) ==
    [summary |-> doc.title, start |-> doc.createdAt,
     end |-> clampEnd(doc.createdAt, doc.deadline), timed |-> TRUE,
     live |-> TRUE]

eventLive(e) == e \in DOMAIN events /\ events[e].live

\* updateCalendarEvent without the empty-patch return of lines 248-251
afterInit_AlwaysPatch(r) ==
    CASE r.op = "create" -> [r EXCEPT !.pc = "cal_insert"]
      [] r.op = "update" ->
           IF "deadline" \in r.body.has THEN [r EXCEPT !.pc = "cal_get"]
           ELSE [r EXCEPT !.pc = "cal_patch"]
      [] OTHER -> [r EXCEPT !.pc = "cal_delete"]
\* the client is there: createCalendarEvent goes to events.insert (132),
\* deleteCalendarEvent to events.delete (301); updateCalendarEvent builds
\* the patch (176-189), fetches the event when the deadline changes (192-201),
\* returns true without a call when the patch is empty (248-251) and
\* patches otherwise (255-266)
afterInit(r) ==
    CASE r.op = "create" -> [r EXCEPT !.pc = "cal_insert"]
      [] r.op = "update" ->
           IF "deadline" \in r.body.has THEN [r EXCEPT !.pc = "cal_get"]
           ELSE IF r.body.has \cap {"title", "description"} = {}
                THEN afterAdapter(r, TRUE)
                ELSE [r EXCEPT !.pc = "cal_patch"]
      [] OTHER -> [r EXCEPT !.pc = "cal_delete"]

\* an adapter that gives up when it finds no client
enterAdapter_NoRetry(r, call, ev) ==
    LET r1 == Log([r EXCEPT !.ev = ev], call) IN
    IF calendar # "null" THEN afterInit(r1) ELSE afterAdapter(r1, FALSE)
\* a handler that announces the task before it calls the adapter
enterAdapter_Announce(r, call, ev) ==
    LET r1 == Log(broadcastTaskUpdate([r EXCEPT !.ev = ev], r.doc), call) IN
    IF calendar # "null" THEN afterInit(r1)
    ELSE IF ~configured THEN afterAdapter(r1, FALSE)
    ELSE [r1 EXCEPT !.pc = "cal_init"]
\* entry of createCalendarEvent (68-82), updateCalendarEvent (168-172) and
\* deleteCalendarEvent (293-297) for event ev
enterAdapter(r, call, ev) ==
    LET r1 == Log([r EXCEPT !.ev = ev], call) IN
    IF calendar # "null" THEN afterInit(r1)
    ELSE IF ~configured THEN afterAdapter(r1, FALSE)
    ELSE [r1 EXCEPT !.pc = "cal_init"]

\* line 331: the initialisation started when the module is loaded; lines
\* 51-61: authorize resolves and the handle is set, or rejects and the
\* handle is reset to null
BootInit ==
    /\ boot = "authorizing"
    /\ \E ok \in BOOLEAN : calendar' = IF ok THEN "client" ELSE "null"
    /\ boot' = "done"
    /\ UNCHANGED <<authVars, socks, controller, middleware, tasks, events, bcast, treq>>

\* lines 44-62 inside an adapter operation that found no client
CalInit(i) ==
    /\ treq[i].pc = "cal_init"
    /\ \E ok \in BOOLEAN :
         /\ calendar' = IF ok THEN "client" ELSE "null"
         /\ LET r1 == Log(treq[i], "authorize") IN
            Commit(i, IF ok THEN afterInit(r1) ELSE afterAdapter(r1, FALSE))
    /\ UNCHANGED <<authVars, socks, controller, middleware, tasks, boot, events>>

\* lines 132-160: events.insert answers with the new event's id, answers
\* without an id, or fails
CalInsert(i) ==
    /\ treq[i].pc = "cal_insert"
    /\ \E res \in {"ok", "noid", "error"} :
         /\ events' = IF res = "error" THEN events
                      ELSE Append(events, eventOf(treq[i].doc))
         /\ LET r1 == Log([treq[i] EXCEPT !.res = res], "events.insert") IN
            Commit(i, IF res = "ok"
                      THEN afterAdapter([r1 EXCEPT !.ev = Len(events) + 1], TRUE)
                      ELSE afterAdapter(r1, FALSE))
    /\ UNCHANGED <<authVars, socks, controller, middleware, tasks, calendar, boot>>

\* lines 198-243 and 274-288: events.get answers with the event or fails.
\* An event with start.dateTime ("timed") clamps the new end (210-232); for
\* one without (an all-day event) the time check is dropped (204-209) and the
\* rest of the patch, if there is any, is sent like an update without a
\* deadline (248-267); a failed get is caught at 274 and returns false
CalGet(i) ==
    /\ treq[i].pc = "cal_get"
    /\ \E res \in IF eventLive(treq[i].ev) THEN {"ok", "error"} ELSE {"error"} :
         LET r1 == Log([treq[i] EXCEPT !.res = res], "events.get") IN
         Commit(i, IF res = "error" THEN afterAdapter(r1, FALSE)
                   ELSE IF events[r1.ev].timed
                   THEN [r1 EXCEPT !.pc = "cal_patch",
                            !.end = clampEnd(events[r1.ev].start,
                                             deadlineOf(r1.body.v))]
                   ELSE IF r1.body.has \cap {"title", "description"} = {}
                   THEN afterAdapter(r1, TRUE)
                   ELSE [r1 EXCEPT !.pc = "cal_patch"])
    /\ UNCHANGED <<authVars, socks, controller, middleware, tasks, calendar, boot, events>>

\* lines 255-266 and 274-288: events.patch with the title and, when the
\* time check produced one (r.end), the new end
CalPatch(i) ==
    /\ treq[i].pc = "cal_patch"
    /\ \E res \in IF eventLive(treq[i].ev) THEN {"ok", "error"} ELSE {"error"} :
         /\ events' = IF res = "error" THEN events
                      ELSE [events EXCEPT ![treq[i].ev] = [@ EXCEPT
                              !.summary = IF "title" \in treq[i].body.has
                                          THEN titleOf(treq[i].body.v) ELSE @,
                              !.end = IF "deadline" \in treq[i].body.has
                                         /\ treq[i].end # 0
                                      THEN treq[i].end ELSE @]]
         /\ Commit(i, afterAdapter(Log([treq[i] EXCEPT !.res = res],
                                      "events.patch"), res = "ok"))
    /\ UNCHANGED <<authVars, socks, controller, middleware, tasks, calendar, boot>>

\* the calendar is shared (GOOGLE_SHARED_CALENDAR_ID): one of its
\* users turns an event the program inserted into an all-day event, which
\* has start.date and no start.dateTime
AllDay(e) ==
    /\ eventLive(e) /\ events[e].timed
    /\ events' = [events EXCEPT ![e].timed = FALSE]
    /\ UNCHANGED <<authVars, socks, controller, middleware, tasks, calendar, boot, bcast, treq>>

\* lines 299-327: events.delete removes the event, answers 404/410 for one
\* that is gone (taken as success, 310-313), or fails.  The calendar is
\* shared: an event the program created may have been removed there by
\* someone else, so "gone" can answer a call for any event.
CalDelete(i) ==
    /\ treq[i].pc = "cal_delete"
    /\ \E res \in IF eventLive(treq[i].ev) THEN {"ok", "gone", "error"}
                  ELSE {"gone", "error"} :
         /\ events' = IF res # "error" /\ eventLive(treq[i].ev)
                      THEN [events EXCEPT ![treq[i].ev].live = FALSE]
                      ELSE events
         /\ Commit(i, afterAdapter(Log([treq[i] EXCEPT !.res = res],
                                      "events.delete"), res # "error"))
    /\ UNCHANGED <<authVars, socks, controller, middleware, tasks, calendar, boot>>

---------------------------------------------------------------------------
(* createTask: tasks.controller.ts 33-134 ("cur"), part_003 32-109        *)
(* ("p3"), part_004 34-106 ("p4").                                         *)

\* cur 52-75, p3 42-59, p4 50-70: an assignee email is looked up, without
\* one the task is assigned to its owner
createAssignee(r) ==
    IF "assignee" \in r.body.has /\ r.body.email # ""
    THEN [r EXCEPT !.pc = "assignee"]
    ELSE [r EXCEPT !.body.assignee = r.uid, !.pc = "save"]

\* cur 37-39 and p3 34-36 need req.user, which only the Google-token
\* middleware sets (errorHandler.ts 44-161; authenticateWithJWT, part_008
\* 14-57, sets req.userId alone); p4 41 loads the user instead
CreateTask(uid, b) ==
    /\ LET r == NewTaskReq("create", uid, 0, b) IN
       Arrive(IF controller = "p4" THEN [r EXCEPT !.pc = "user"]
              ELSE IF middleware # "google"
                   THEN Respond(r, 401, "User not properly authenticated")
                   ELSE createAssignee(r))
    /\ UNCHANGED <<authVars, socks, controller, middleware, tasks, calendar, boot, events>>

\* p4 41-44: User.findById(userId)
CreateFindUser(i) ==
    /\ treq[i].op = "create" /\ treq[i].pc = "user"
    /\ Commit(i, IF treq[i].uid \in DOMAIN users
                 THEN createAssignee(treq[i])
                 ELSE Respond(treq[i], 401, "User not found in DB"))
    /\ UNCHANGED <<authVars, socks, controller, middleware, tasks, calendar, boot, events>>

\* cur 55-68, p3 44-55, p4 52-65: User.findOne({ email })
CreateFindAssignee(i) ==
    /\ treq[i].op = "create" /\ treq[i].pc = "assignee"
    /\ LET a == findUserByEmail(treq[i].body.email) IN
       Commit(i, IF a = 0 THEN Respond(treq[i], 400, "Assignee user not found")
                 ELSE [treq[i] EXCEPT !.body.assignee = a, !.pc = "save"])
    /\ UNCHANGED <<authVars, socks, controller, middleware, tasks, calendar, boot, events>>

\* cur 86-107, p3 70-88, p4 76-92: the document is built with the
\* requester as owner and saved (title and deadline are required by the
\* schema; the catch block answers a ValidationError with 400), then
\* createCalendarEvent(savedTask) is called
CreateSave(i) ==
    /\ treq[i].op = "create" /\ treq[i].pc = "save"
    /\ LET r == treq[i]
           doc == newTask(r.uid, r.body)
       IN IF {"title", "deadline"} \subseteq r.body.has
          THEN /\ tasks' = Append(tasks, doc)
               /\ Commit(i, enterAdapter(
                      Log([r EXCEPT !.tid = Len(tasks) + 1, !.doc = doc], "save"),
                      "createCalendarEvent", 0))
          ELSE /\ tasks' = tasks
               /\ Commit(i, Respond(r, 400, "Validation Error creating task"))
    /\ UNCHANGED <<authVars, socks, controller, middleware, calendar, boot, events>>

\* a second save that writes the whole document the handler holds
CreateSaveEventId_WholeDoc(i) ==
    /\ treq[i].op = "create" /\ treq[i].pc = "save2"
    /\ LET r == treq[i] IN
       IF taskLive(r.tid)
       THEN /\ tasks' = [tasks EXCEPT ![r.tid] = r.doc]
            /\ Commit(i, createFinish(Log(r, "save")))
       ELSE /\ tasks' = tasks
            /\ Commit(i, Respond(r, 400, "Error creating task"))
    /\ UNCHANGED <<authVars, socks, controller, middleware, calendar, boot, events>>

\* cur 109-121, p3 89-98, p4 93-102: the event id is set on the document
\* and saved; save() of a document that was removed meanwhile throws
\* DocumentNotFoundError and the catch block answers 400 (cur 132, p3 107;
\* p4 103-105 elides its catch block, it is taken to be the one of p3)
CreateSaveEventId(i) ==
    /\ treq[i].op = "create" /\ treq[i].pc = "save2"
    /\ LET r == treq[i] IN
       IF taskLive(r.tid)
       THEN /\ tasks' = [tasks EXCEPT ![r.tid].cal = r.ev,
                                      ![r.tid].updatedAt = now * 1000]
            /\ Commit(i, createFinish(Log([r EXCEPT !.doc.updatedAt = now * 1000],
                                          "save")))
       ELSE /\ tasks' = tasks
            /\ Commit(i, Respond(r, 400, "Error creating task"))
    /\ UNCHANGED <<authVars, socks, controller, middleware, calendar, boot, events>>

---------------------------------------------------------------------------
(* updateTask: tasks.controller.ts 137-217 ("cur"), part_003 113-242       *)
(* ("p3"), part_004 109-198 ("p4").                                        *)

\* the keys each version deletes from the update object: cur 146,
\* p3 173-178, p4 156-161
forbiddenKeys(ver) ==
    CASE ver = "cur" -> {"owner"}
      [] ver = "p3" -> {"owner", "createdAt", "updatedAt", "id", "_id"}
      [] OTHER -> {"owner", "createdAt", "updatedAt", "id", "_id",
                   "calendarEventId"}
stripUpdate(ver, b) == [b EXCEPT !.has = @ \ forbiddenKeys(ver)]

\* the assignee keys dropped when no email came with them: p3 163 and
\* p4 151 test 'assignee' in updates, cur 165 tests the value, so that a
\* falsy assignee stays in the update object
droppedAssignee(ver) ==
    IF ver = "cur" THEN {"assignee"} ELSE {"assignee", nullAssignee}
\* cur 149-171, p3 144-169, p4 132-153: an assignee with an email is looked
\* up, an assignee without one is dropped from the update; p3 and p4 delete
\* the forbidden keys after that, cur did before
updateAssignee(r) ==
    IF "assignee" \in r.body.has /\ r.body.email # ""
    THEN [r EXCEPT !.pc = "assignee"]
    ELSE [r EXCEPT !.body = stripUpdate(controller,
                                [@ EXCEPT !.has = @ \ droppedAssignee(controller)]),
                   !.pc = "fau"]

\* cur 139-171 has no lookup of the task before the update; p3 128 and
\* p4 123-126 first await Task.findOne({ _id, owner })
UpdateTask(uid, t, b) ==
    /\ LET r == NewTaskReq("update", uid, t, b) IN
       Arrive(IF controller = "cur"
              THEN updateAssignee([r EXCEPT !.body = stripUpdate("cur", b)])
              ELSE [r EXCEPT !.pc = "own"])
    /\ UNCHANGED <<authVars, socks, controller, middleware, tasks, calendar, boot, events>>

\* p3 128-140, p4 123-129: the owner's task is found, or the task is
\* looked up again to tell 404 from 403
UpdateCheckOwner(i) ==
    /\ treq[i].op = "update" /\ treq[i].pc = "own"
    /\ Commit(i, IF ownsTask(treq[i].tid, treq[i].uid)
                 THEN updateAssignee(treq[i])
                 ELSE [treq[i] EXCEPT !.pc = "exists"])
    /\ UNCHANGED <<authVars, socks, controller, middleware, tasks, calendar, boot, events>>

\* p3 131-139; p4 128 elides this block, it is taken to be the one of its
\* deleteTask (p4 220-225)
UpdateCheckExists(i) ==
    /\ treq[i].op = "update" /\ treq[i].pc = "exists"
    /\ Commit(i, IF taskLive(treq[i].tid)
                 THEN Respond(treq[i], 403, "Forbidden: You do not own this task")
                 ELSE Respond(treq[i], 404, "Task not found"))
    /\ UNCHANGED <<authVars, socks, controller, middleware, tasks, calendar, boot, events>>

\* cur 152-164, p3 146-162, p4 133-150: User.findOne({ email })
UpdateFindAssignee(i) ==
    /\ treq[i].op = "update" /\ treq[i].pc = "assignee"
    /\ LET a == findUserByEmail(treq[i].body.email) IN
       Commit(i, IF a = 0 THEN Respond(treq[i], 400, "Assignee user not found")
                 ELSE [treq[i] EXCEPT
                         !.body = stripUpdate(controller, [@ EXCEPT !.assignee = a]),
                         !.pc = "fau"])
    /\ UNCHANGED <<authVars, socks, controller, middleware, tasks, calendar, boot, events>>

\* cur 187, p3 201-204, p4 180-182: whether updateCalendarEvent is called.
\* cur passes it the update object, p3 its title, description and deadline
\* (206-211); p4 185-187 elides the argument, taken to be the one of p3
shouldUpdateCalendar(ver, doc, b) ==
    /\ doc.cal # 0
    /\ ver = "cur" \/ b.has \cap {"deadline", "title", "description"} # {}

\* cur 174-204, p3 184-226, p4 166-194: Task.findByIdAndUpdate(taskId,
\* updates); null answers 404, otherwise the calendar block runs.  An
\* update that sets assignee to a falsy value is either written (the
\* nested path is cleared) or rejected by the update validators for the
\* required assignee.id, name and email (task.model.ts 16-20): which of the
\* two depends on the Mongoose version, and the catch block answers the
\* rejection with 400 (cur 207-211)
UpdateApply(i) ==
    /\ treq[i].op = "update" /\ treq[i].pc = "fau"
    /\ LET r == treq[i] IN
       \E rejected \in IF nullAssignee \in r.body.has THEN BOOLEAN ELSE {FALSE} :
       IF rejected
       THEN /\ tasks' = tasks
            /\ Commit(i, Respond(r, 400, "Validation Error updating task"))
       ELSE IF taskLive(r.tid)
       THEN LET doc == [applyUpdate(tasks[r.tid], r.body)
                           EXCEPT !.updatedAt = now * 1000]
                r1 == Log([r EXCEPT !.doc = doc], "findByIdAndUpdate")
            IN /\ tasks' = [tasks EXCEPT ![r.tid] = doc]
               /\ Commit(i, IF shouldUpdateCalendar(controller, doc, r.body)
                            THEN enterAdapter(r1, "updateCalendarEvent", doc.cal)
                            ELSE updateFinish(r1))
       ELSE /\ tasks' = tasks
            /\ Commit(i, Respond(r, 404, "Task not found after update attempt"))
    /\ UNCHANGED <<authVars, socks, controller, middleware, calendar, boot, events>>

---------------------------------------------------------------------------
(* deleteTask: tasks.controller.ts 219-260 ("cur"), part_003 246-298       *)
(* ("p3"), part_004 201-249 ("p4").                                        *)

DeleteTask(uid, t) ==
    /\ Arrive([NewTaskReq("delete", uid, t, Body({}, 1, "")) EXCEPT !.pc = "own"])
    /\ UNCHANGED <<authVars, socks, controller, middleware, tasks, calendar, boot, events>>

\* the removal without the calendar call before it
deleteEvent_NoCall(r, doc) == [r EXCEPT !.doc = doc, !.pc = "fad"]
\* the owner's task was found: deleteCalendarEvent is called when it has a
\* calendarEventId (cur 241-244, p3 270-282, p4 230-236, websocket.service.ts
\* 153-159), then the task is removed
deleteEvent(r, doc) ==
    IF doc.cal # 0
    THEN enterAdapter([r EXCEPT !.doc = doc], "deleteCalendarEvent", doc.cal)
    ELSE [r EXCEPT !.doc = doc, !.pc = "fad"]

\* cur 227-229, p3 257-258, p4 213-217: Task.findOne({ _id, owner })
DeleteCheckOwner(i) ==
    /\ treq[i].op = "delete" /\ treq[i].pc = "own"
    /\ Commit(i, IF ownsTask(treq[i].tid, treq[i].uid)
                 THEN deleteEvent(treq[i], tasks[treq[i].tid])
                 ELSE [treq[i] EXCEPT !.pc = "exists"])
    /\ UNCHANGED <<authVars, socks, controller, middleware, tasks, calendar, boot, events>>

\* cur 230-238, p3 259-267, p4 220-225: Task.findById(taskId)
DeleteCheckExists(i) ==
    /\ treq[i].op = "delete" /\ treq[i].pc = "exists"
    /\ Commit(i, IF taskLive(treq[i].tid)
                 THEN Respond(treq[i], 403, "Forbidden: You do not own this task")
                 ELSE Respond(treq[i], 404, "Task not found"))
    /\ UNCHANGED <<authVars, socks, controller, middleware, tasks, calendar, boot, events>>

\* cur 247-252, p3 286-289, p4 239-245: Task.findByIdAndDelete(taskId),
\* in p4 followed by broadcastTaskDelete
DeleteRemove(i) ==
    /\ treq[i].op = "delete" /\ treq[i].pc = "fad"
    /\ tasks' = [tasks EXCEPT ![treq[i].tid].live = FALSE]
    /\ LET r1 == Log(treq[i], "findByIdAndDelete") IN
       Commit(i, Respond(IF controller = "p4" THEN broadcastTaskDelete(r1) ELSE r1,
                         200, "Task deleted"))
    /\ UNCHANGED <<authVars, socks, controller, middleware, calendar, boot, events>>

---------------------------------------------------------------------------
(* The socket.io handlers, websocket.service.ts 60-172.  A handler answers *)
(* its own socket only with an error event; status stays 0 and msg is the  *)
(* error's message, "" when the handler ran to its end.                    *)

\* 60-81
WsUpdateTask(uid, t, b) ==
    /\ Arrive([NewTaskReq("wsUpdate", uid, t, b) EXCEPT !.pc = "own"])
    /\ UNCHANGED <<authVars, socks, controller, middleware, tasks, calendar, boot, events>>

\* a payload from which the key owner is not deleted
wsForbiddenKeys_KeepOwner ==
    {"createdAt", "updatedAt", "_id", "id", "calendarEventId", "assignee",
     nullAssignee}
\* 92-100: the keys deleted from the payload
wsForbiddenKeys ==
    {"owner", "createdAt", "updatedAt", "_id", "id", "calendarEventId", "assignee",
     nullAssignee}

\* 104: task.set(payload) on the loaded document; strict mode ignores the
\* key "$set", which is no path of the schema
taskSet(doc, b) == applyUpdate(doc, [b EXCEPT !.has = @ \ {"$set"}])
\* the paths set() marked modified: those whose value changed
modifiedPaths(doc, doc2) ==
    {f \in {"title", "status", "deadline", "owner", "assignee", "cal"} :
        doc2[f] # doc[f]}

\* 78-104: Task.findOne({ _id, owner }); no task: TASK_UPDATE_ERROR.  The
\* keys are deleted from updatesPayload, a copy (66): data.updates, the
\* request's body, stays as it came
WsUpdateCheckOwner(i) ==
    /\ treq[i].op = "wsUpdate" /\ treq[i].pc = "own"
    /\ LET r == treq[i] IN
       Commit(i, IF ownsTask(r.tid, r.uid)
                 THEN LET b == [r.body EXCEPT !.has = @ \ wsForbiddenKeys]
                          doc == taskSet(tasks[r.tid], b)
                      IN [r EXCEPT !.doc = doc, !.pc = "wsave",
                                   !.mod = modifiedPaths(tasks[r.tid], doc)]
                 ELSE emitError(r, "Task not found or permission denied"))
    /\ UNCHANGED <<authVars, socks, controller, middleware, tasks, calendar, boot, events>>

\* 105-123: task.save() writes the modified paths of the loaded document
\* and throws DocumentNotFoundError when the document is gone; then
\* broadcastTaskUpdate(updatedTask)
WsUpdateSave(i) ==
    /\ treq[i].op = "wsUpdate" /\ treq[i].pc = "wsave"
    /\ LET r == treq[i] IN
       IF taskLive(r.tid)
       THEN /\ tasks' = [tasks EXCEPT ![r.tid] =
                   [f \in DOMAIN @ |->
                       IF f \in r.mod THEN r.doc[f]
                       ELSE IF f = "updatedAt" /\ r.mod # {} THEN now * 1000
                       ELSE @[f]]]
            /\ LET doc == IF r.mod = {} THEN r.doc
                          ELSE [r.doc EXCEPT !.updatedAt = now * 1000]
               IN Commit(i, Respond(broadcastTaskUpdate(
                                       Log([r EXCEPT !.doc = doc], "save"), doc),
                                   0, ""))
       ELSE /\ tasks' = tasks
            /\ Commit(i, emitError(r, "No document found for query"))
    /\ UNCHANGED <<authVars, socks, controller, middleware, calendar, boot, events>>

\* 128-144
WsDeleteTask(uid, t) ==
    /\ Arrive([NewTaskReq("wsDelete", uid, t, Body({}, 1, "")) EXCEPT !.pc = "own"])
    /\ UNCHANGED <<authVars, socks, controller, middleware, tasks, calendar, boot, events>>

\* 141-159: no task: TASK_DELETE_ERROR
WsDeleteCheckOwner(i) ==
    /\ treq[i].op = "wsDelete" /\ treq[i].pc = "own"
    /\ Commit(i, IF ownsTask(treq[i].tid, treq[i].uid)
                 THEN deleteEvent(treq[i], tasks[treq[i].tid])
                 ELSE emitError(treq[i], "Task not found or permission denied"))
    /\ UNCHANGED <<authVars, socks, controller, middleware, tasks, calendar, boot, events>>

\* 161-164: Task.findByIdAndDelete(taskId); broadcastTaskDelete(taskId)
WsDeleteRemove(i) ==
    /\ treq[i].op = "wsDelete" /\ treq[i].pc = "fad"
    /\ tasks' = [tasks EXCEPT ![treq[i].tid].live = FALSE]
    /\ Commit(i, Respond(broadcastTaskDelete(Log(treq[i], "findByIdAndDelete")),
                         0, ""))
    /\ UNCHANGED <<authVars, socks, controller, middleware, calendar, boot, events>>

---------------------------------------------------------------------------
\* the ids a client can name: those of the documents, and 0 for a
\* well-formed ObjectId that names none
TaskIds == DOMAIN tasks \cup {0}

Create == \E uid \in Subjects, b \in CreateBodies : CreateTask(uid, b)
CreateStep ==
    \E i \in DOMAIN treq :
        CreateFindUser(i) \/ CreateFindAssignee(i) \/ CreateSave(i)
            \/ CreateSaveEventId(i)
Update == \E uid \in Subjects, t \in TaskIds, b \in UpdateBodies : UpdateTask(uid, t, b)
UpdateStep ==
    \E i \in DOMAIN treq :
        UpdateCheckOwner(i) \/ UpdateCheckExists(i) \/ UpdateFindAssignee(i)
            \/ UpdateApply(i)
Delete == \E uid \in Subjects, t \in TaskIds : DeleteTask(uid, t)
DeleteStep ==
    \E i \in DOMAIN treq :
        DeleteCheckOwner(i) \/ DeleteCheckExists(i) \/ DeleteRemove(i)
WsUpdate == \E uid \in Subjects, t \in TaskIds, b \in UpdateBodies : WsUpdateTask(uid, t, b)
WsUpdateStep == \E i \in DOMAIN treq : WsUpdateCheckOwner(i) \/ WsUpdateSave(i)
WsDelete == \E uid \in Subjects, t \in TaskIds : WsDeleteTask(uid, t)
WsDeleteStep == \E i \in DOMAIN treq : WsDeleteCheckOwner(i) \/ WsDeleteRemove(i)
CalendarStep ==
    \E i \in DOMAIN treq :
        CalInit(i) \/ CalInsert(i) \/ CalGet(i) \/ CalPatch(i) \/ CalDelete(i)

InitTasks ==
    /\ users = TaskUsers
    /\ now = 0
    /\ areq = <<>>
    /\ controller \in {"cur", "p3", "p4"}
    /\ middleware \in {"google", "jwt"}
    /\ tasks = <<>>
    /\ calendar = "null"
    /\ boot \in {"authorizing", "unconfigured"}
    /\ events = <<>>
    /\ bcast = <<>>
    /\ treq = <<>>
    /\ socks = <<>>

NextTasks ==
    \/ BootInit
    \/ Create
    \/ CreateStep
    \/ Update
    \/ UpdateStep
    \/ Delete
    \/ DeleteStep
    \/ WsUpdate
    \/ WsUpdateStep
    \/ WsDelete
    \/ WsDeleteStep
    \/ CalendarStep

SpecTasks == InitTasks /\ [][NextTasks]_vars

---------------------------------------------------------------------------
(* The mirror pipeline by itself: tasks are created at clock second 1      *)
(* with deadlines around the five-minute minimum and their deadlines are   *)
(* updated over HTTP, with the calendar configured.                        *)
MirrorCreateBodies ==
    { Body({"title", "deadline"}, v, "") : v \in 3..(2 + Len(MirrorDeadlines)) }
MirrorUpdateBodies ==
    { Body({"deadline"}, 3, ""), Body({"deadline"}, 5, ""),
      Body({"deadline"}, 7, "") }

InitMirror ==
    /\ users = TaskUsers
    /\ now = 1
    /\ areq = <<>>
    /\ controller \in {"cur", "p3", "p4"}
    /\ middleware = "google"
    /\ tasks = <<>>
    /\ calendar = "null"
    /\ boot = "authorizing"
    /\ events = <<>>
    /\ bcast = <<>>
    /\ treq = <<>>
    /\ socks = <<>>

NextMirror ==
    \/ BootInit
    \/ \E b \in MirrorCreateBodies : CreateTask(1, b)
    \/ CreateStep
    \/ \E t \in TaskIds, b \in MirrorUpdateBodies : UpdateTask(1, t, b)
    \/ UpdateStep
    \/ CalendarStep

SpecMirror == InitMirror /\ [][NextMirror]_vars

---------------------------------------------------------------------------
(* Assignment by itself: creates and updates, over HTTP and the socket,    *)
(* whose payload names an assignee by a known email ("g2"), by an email    *)
(* no user has ("nobody"), by an object without email, by a falsy value,   *)
(* or not at all.                                                          *)
AssigneeCreateBodies ==
    { Body({"title", "deadline"}, 1, ""),
      Body({"title", "deadline", "assignee"}, 1, "g2"),
      Body({"title", "deadline", "assignee"}, 1, "nobody") }
AssigneeUpdateBodies ==
    { Body({"status", "assignee"}, 2, "g2"),
      Body({"status", "assignee"}, 2, "nobody"),
      Body({"status", "assignee"}, 2, ""),
      Body({"status", nullAssignee}, 2, "") }

InitAssignee ==
    /\ users = TaskUsers
    /\ now = 0
    /\ areq = <<>>
    /\ controller \in {"cur", "p3", "p4"}
    /\ middleware = "google"
    /\ tasks = <<>>
    /\ calendar = "null"
    /\ boot = "authorizing"
    /\ events = <<>>
    /\ bcast = <<>>
    /\ treq = <<>>
    /\ socks = <<>>

NextAssignee ==
    \/ BootInit
    \/ \E b \in AssigneeCreateBodies : CreateTask(1, b)
    \/ CreateStep
    \/ \E uid \in Subjects, t \in TaskIds, b \in AssigneeUpdateBodies :
            UpdateTask(uid, t, b)
    \/ UpdateStep
    \/ \E t \in TaskIds, b \in AssigneeUpdateBodies : WsUpdateTask(1, t, b)
    \/ WsUpdateStep
    \/ CalendarStep

SpecAssignee == InitAssignee /\ [][NextAssignee]_vars

---------------------------------------------------------------------------
(* The socket.io server: websocket.service.ts 19-57 and app.ts 58-70.  A   *)
(* connection record holds the token of handshake.auth, the socket's       *)
(* mongoUserId (0 for undefined), its state, the reason a refusal was      *)
(* given, the time it was established or lost, and socket.recovered.       *)
NewSock(tok) ==
    [tok |-> tok, uid |-> 0, state |-> "new", reason |-> "", at |-> now,
     recovered |-> FALSE]

\* the tokens a client can present: none, one the access secret does not
\* verify, or an access token the server signed for a user at some second
HandshakeTokens ==
    {NoToken, Garbage} \cup {signAccess(u, t) : u \in DOMAIN users, t \in 0..now}

\* 23-49: the io.use middleware
wsAuthenticate(s) ==
    IF s.tok = NoToken
    THEN [s EXCEPT !.state = "refused",
                   !.reason = "Authentication error: Token required"]
    ELSE LET v == jwtVerify(s.tok, "access", AccessTTL, now) IN
         CASE v = "TokenExpiredError" ->
                [s EXCEPT !.state = "refused", !.reason = "Access token expired"]
           [] v = "JsonWebTokenError" ->
                [s EXCEPT !.state = "refused", !.reason = "Invalid access token"]
           [] OTHER ->
                IF s.tok.uid = 0
                THEN [s EXCEPT !.state = "refused", !.reason = "Invalid token payload"]
                ELSE [s EXCEPT !.state = "connected", !.uid = s.tok.uid]

\* a client connects: the middleware runs, then the connection handler
\* (52-57)
Handshake(tok) ==
    /\ Len(socks) < MaxSocks
    /\ socks' = Append(socks, wsAuthenticate(NewSock(tok)))
    /\ UNCHANGED <<authVars, controller, middleware, tasks, calendar, boot,
                   events, bcast, treq>>

\* the transport of a connection is lost; with connectionStateRecovery
\* (app.ts 65-69) the server keeps the session's id, rooms and data
Disconnect(k) ==
    /\ socks[k].state = "connected"
    /\ socks' = [socks EXCEPT ![k].state = "disconnected", ![k].at = now]
    /\ UNCHANGED <<authVars, controller, middleware, tasks, calendar, boot,
                   events, bcast, treq>>

\* app.ts 65-69: the client comes back within maxDisconnectionDuration
\* with its session id.  socket.io makes a new Socket with the stored id,
\* rooms and data and, under skipMiddlewares: true, does not run the
\* io.use middleware: mongoUserId, a property of the old Socket object that
\* only the middleware sets (36), is undefined on the new one.
Recover(k) ==
    /\ socks[k].state = "disconnected"
    /\ now - socks[k].at <= RecoveryWindow
    /\ socks' = [socks EXCEPT ![k].state = "connected", ![k].uid = 0,
                              ![k].at = now, ![k].recovered = TRUE]
    /\ UNCHANGED <<authVars, controller, middleware, tasks, calendar, boot,
                   events, bcast, treq>>

InitSocket ==
    /\ users = TaskUsers
    /\ now = 0
    /\ areq = <<>>
    /\ controller = "cur"
    /\ middleware = "jwt"
    /\ tasks = <<>>
    /\ calendar = "null"
    /\ boot = "unconfigured"
    /\ events = <<>>
    /\ bcast = <<>>
    /\ treq = <<>>
    /\ socks = <<>>

NextSocket ==
    \/ \E tok \in HandshakeTokens : Handshake(tok)
    \/ \E k \in DOMAIN socks : Disconnect(k)
    \/ \E k \in DOMAIN socks : Recover(k)
    \/ Tick

SpecSocket == InitSocket /\ [][NextSocket]_vars

---------------------------------------------------------------------------
(* getTasks: tasks.controller.ts 12-29 ("cur"), part_003 15-28 ("p3"),     *)
(* part_004 19-31 ("p4").  The answer, a sequence of task ids, is kept in  *)
(* the request's field list.                                               *)

\* the orders in which a query can return the tasks of set S: every order
\* when the query has no sort (MongoDB promises none), the orders of
\* non-increasing createdAt under sort({ createdAt: -1 })
Orders(S, sorted) ==
    {f \in [1..Cardinality(S) -> S] :
        /\ \A a, b \in DOMAIN f : a # b => f[a] # f[b]
        /\ sorted => \A a, b \in DOMAIN f :
                        a < b => tasks[f[a]].createdAt >= tasks[f[b]].createdAt}

\* cur 20 has no sort; p3 21 and p4 25 sort by createdAt, newest first
findSorted(ver) == ver # "cur"

\* cur 14-17, p3 17-19, p4 20-23: both middlewares set req.userId
GetTasks(uid) ==
    /\ Cardinality({i \in DOMAIN treq : treq[i].op = "list"}) < MaxListReqs
    /\ treq' = Append(treq, [NewTaskReq("list", uid, 0, Body({}, 1, ""))
                                EXCEPT !.pc = "find"])
    /\ UNCHANGED <<authVars, socks, controller, middleware, tasks, calendar, boot,
                   events, bcast>>

\* cur 20-23, p3 21-23, p4 25-27: Task.find({ owner }) answers and the
\* documents are sent
GetTasksFind(i) ==
    /\ treq[i].op = "list" /\ treq[i].pc = "find"
    /\ \E f \in Orders({t \in DOMAIN tasks : taskLive(t) /\ tasks[t].owner = treq[i].uid},
                       findSorted(controller)) :
         Commit(i, Respond(Log([treq[i] EXCEPT !.list = f], "find"), 200, ""))
    /\ UNCHANGED <<authVars, socks, controller, middleware, tasks, calendar, boot,
                   events>>

InitList ==
    /\ users = TaskUsers
    /\ now = 0
    /\ areq = <<>>
    /\ controller \in {"cur", "p3", "p4"}
    /\ middleware = "google"
    /\ tasks = <<>>
    /\ calendar = "null"
    /\ boot = "unconfigured"
    /\ events = <<>>
    /\ bcast = <<>>
    /\ treq = <<>>
    /\ socks = <<>>

NextList ==
    \/ \E uid \in Subjects : CreateTask(uid, Body({"title", "deadline"}, 1, ""))
    \/ CreateStep
    \/ Tick
    \/ \E uid \in Subjects : GetTasks(uid)
    \/ \E i \in DOMAIN treq : GetTasksFind(i)

SpecList == InitList /\ [][NextList]_vars

---------------------------------------------------------------------------
(* The stored fields by themselves: one subject creates tasks and updates  *)
(* them over HTTP and the socket, with and without calendarEventId in the  *)
(* payload, while the clock advances and the calendar client is there.     *)
FieldUpdateBodies ==
    { Body({"status"}, 2, ""), Body({"status", "calendarEventId"}, 2, "") }

InitFields ==
    /\ users = TaskUsers
    /\ now = 0
    /\ areq = <<>>
    /\ controller \in {"cur", "p3", "p4"}
    /\ middleware = "google"
    /\ tasks = <<>>
    /\ calendar = "client"
    /\ boot = "done"
    /\ events = <<>>
    /\ bcast = <<>>
    /\ treq = <<>>
    /\ socks = <<>>

NextFields ==
    \/ \E h \in {{"title", "deadline"}, {"title", "deadline", "calendarEventId"}} :
          CreateTask(1, Body(h, 1, ""))
    \/ CreateStep
    \/ \E t \in TaskIds, b \in FieldUpdateBodies : UpdateTask(1, t, b)
    \/ UpdateStep
    \/ \E t \in TaskIds, b \in FieldUpdateBodies : WsUpdateTask(1, t, b)
    \/ WsUpdateStep
    \/ CalendarStep
    \/ Tick

SpecFields == InitFields /\ [][NextFields]_vars

---------------------------------------------------------------------------
(* The adapter by itself: one user's tasks are created, updated with a     *)
(* deadline, with or without a title, and deleted over HTTP, while the     *)
(* first initialisation may fail and users of the shared calendar turn     *)
(* events into all-day events.                                             *)
AdapterUpdateBodies ==
    { Body({"title", "deadline"}, 2, ""), Body({"deadline"}, 2, "") }

InitAdapter ==
    /\ users = TaskUsers
    /\ now = 0
    /\ areq = <<>>
    /\ controller \in {"cur", "p3", "p4"}
    /\ middleware = "google"
    /\ tasks = <<>>
    /\ calendar = "null"
    /\ boot = "authorizing"
    /\ events = <<>>
    /\ bcast = <<>>
    /\ treq = <<>>
    /\ socks = <<>>

NextAdapter ==
    \/ BootInit
    \/ CreateTask(1, Body({"title", "deadline"}, 1, ""))
    \/ CreateStep
    \/ \E t \in TaskIds, b \in AdapterUpdateBodies : UpdateTask(1, t, b)
    \/ UpdateStep
    \/ \E t \in TaskIds : DeleteTask(1, t)
    \/ DeleteStep
    \/ CalendarStep
    \/ \E e \in DOMAIN events : AllDay(e)

SpecAdapter == InitAdapter /\ [][NextAdapter]_vars

\* lines 132-136, 198-201, 260-264, 301-304 and 52: the call the adapter
\* awaits is sent and no answer ever comes.  The requests are made without
\* a timeout option and nothing else settles the awaited promise, so the
\* handler stays at its await
CalHang(i) ==
    /\ treq[i].pc \in {"cal_init", "cal_insert", "cal_get", "cal_patch", "cal_delete"}
    /\ Commit(i, [treq[i] EXCEPT !.pc = "hung"])
    /\ UNCHANGED <<authVars, socks, controller, middleware, tasks, calendar, boot, events>>

NextHang ==
    \/ NextAdapter
    \/ \E i \in DOMAIN treq : CalHang(i)

\* the event loop runs every handler whose awaited call has settled, and
\* every call that is answered at all is answered eventually
SpecHang ==
    /\ InitAdapter /\ [][NextHang]_vars
    /\ WF_vars(CreateStep) /\ WF_vars(UpdateStep) /\ WF_vars(DeleteStep)
    /\ WF_vars(CalendarStep)

---------------------------------------------------------------------------
(* Issue by itself: logins of three Google accounts, two of which share an *)
(* email, in any interleaving, on an empty user collection.                *)
IssueIds == {"g1", "g2", "g3"}

NextIssue ==
    \/ \E g \in IssueIds : StartLogin(g)
    \/ LoginFindStep
    \/ LoginCreateStep
    \/ LoginSaveStep
    \/ Tick

SpecIssue == InitAuth /\ [][NextIssue]_vars

---------------------------------------------------------------------------
(* Delivery by itself: one account logs in and refreshes, and clients ask  *)
(* for GET /users/me with the tokens they were given, and others.          *)
NextDelivery ==
    \/ StartLogin("g1")
    \/ LoginFindStep
    \/ LoginCreateStep
    \/ LoginSaveStep
    \/ Refresh
    \/ RefreshStep
    \/ \E tok \in BearerInputs : StartProfile(tok)
    \/ \E i \in DOMAIN areq : ProfileFind(i)
    \/ Tick

SpecDelivery == InitAuth /\ [][NextDelivery]_vars

---------------------------------------------------------------------------
(* Access by itself: one account logs in and logs out while clients        *)
(* present the tokens they were given, and others, to GET /users/me and to *)
(* the handshake of one socket connection.                                 *)
NextAccess ==
    \/ StartLogin("g1")
    \/ LoginFindStep
    \/ LoginCreateStep
    \/ LoginSaveStep
    \/ Logout
    \/ LogoutStep
    \/ \E tok \in BearerInputs : StartProfile(tok)
    \/ \E i \in DOMAIN areq : ProfileFind(i)
    \/ \E tok \in BearerInputs : socks = <<>> /\ Handshake(tok)
    \/ Tick

SpecAccess == InitAuth /\ [][NextAccess]_vars

---------------------------------------------------------------------------
(* Races on one task: user 1's task exists with its calendar event, as a   *)
(* completed create leaves it, and is updated and deleted over HTTP and    *)
(* the socket by requests that overlap.                                    *)
InitRace ==
    /\ users = TaskUsers
    /\ now = 1
    /\ areq = <<>>
    /\ controller \in {"cur", "p3", "p4"}
    /\ middleware = "jwt"
    /\ LET doc == [NoDoc EXCEPT !.status = "todo", !.title = titleOf(1),
                                !.deadline = deadlineOf(1), !.owner = 1,
                                !.assignee = 1, !.live = TRUE]
       IN /\ tasks = <<[doc EXCEPT !.cal = 1]>>
          /\ events = <<eventOf(doc)>>
    /\ calendar = "client"
    /\ boot = "done"
    /\ bcast = <<>>
    /\ treq = <<>>
    /\ socks = <<>>

NextRace ==
    \/ \E h \in {{"title"}, {"status"}} : UpdateTask(1, 1, Body(h, 2, ""))
    \/ UpdateStep
    \/ \E h \in {{"title"}, {"status"}} : WsUpdateTask(1, 1, Body(h, 2, ""))
    \/ WsUpdateStep
    \/ DeleteTask(1, 1)
    \/ DeleteStep
    \/ WsDeleteTask(1, 1)
    \/ WsDeleteStep
    \/ CalendarStep

SpecRace == InitRace /\ [][NextRace]_vars

---------------------------------------------------------------------------
(* Events on an established connection: one client connects, time passes,  *)
(* and the connection's handlers receive CLIENT_UPDATE_TASK and            *)
(* CLIENT_DELETE_TASK for the task of user 1.                              *)
InitRealtime ==
    /\ users = TaskUsers
    /\ now = 0
    /\ areq = <<>>
    /\ controller \in {"cur", "p3", "p4"}
    /\ middleware = "jwt"
    /\ tasks = <<[NoDoc EXCEPT !.status = "todo", !.title = titleOf(1),
                               !.deadline = deadlineOf(1), !.owner = 1,
                               !.assignee = 1, !.live = TRUE]>>
    /\ events = <<>>
    /\ calendar = "client"
    /\ boot = "done"
    /\ bcast = <<>>
    /\ treq = <<>>
    /\ socks = <<>>

\* websocket.service.ts 60-64 and 128-132: a handler registered on the
\* socket runs for each event and returns at once when the socket has no
\* mongoUserId
NextRealtime ==
    \/ \E tok \in HandshakeTokens : socks = <<>> /\ Handshake(tok)
    \/ \E k \in DOMAIN socks :
          /\ socks[k].state = "connected" /\ socks[k].uid # 0
          /\ WsUpdateTask(socks[k].uid, 1, Body({"status"}, 2, ""))
    \/ WsUpdateStep
    \/ \E k \in DOMAIN socks :
          /\ socks[k].state = "connected" /\ socks[k].uid # 0
          /\ WsDeleteTask(socks[k].uid, 1)
    \/ WsDeleteStep
    \/ Tick

SpecRealtime == InitRealtime /\ [][NextRealtime]_vars

---------------------------------------------------------------------------
(* Properties of the credential service *)

DoneReqs(op) == {i \in DOMAIN areq : areq[i].op = op /\ areq[i].pc = "done"}
Issues == {i \in DoneReqs("login") : areq[i].cookie = "set"}
Revokes == {i \in DoneReqs("logout") : areq[i].uid # 0 /\ areq[i].why # "store"}
\* a refresh whose token verified and whose store read succeeded
DecidedRefreshes == {i \in DoneReqs("refresh") : areq[i].why \in {"", "mismatch"}}

\* request e replaced, in the store, the token that issue l had delivered
Superseded(l, e) ==
    /\ e # l
    /\ areq[e].uid = areq[l].uid
    /\ areq[e].seen = areq[l].tok

\* C4: a refresh token issued for subject S fails refresh with the revoked
\* outcome once a revoke for S or a second issue for S has completed, while
\* the token is unexpired and its signature verifies.
C4_RevokedBeforeExpiry ==
    \A r \in DecidedRefreshes : \A l \in Issues \cap areq[r].before :
        (/\ areq[r].arg = areq[l].tok
         /\ \E e \in (Issues \cup Revokes) \cap areq[r].before : Superseded(l, e))
        => /\ areq[r].status = 403
           /\ areq[r].msg = "Invalid or revoked refresh token"

\* C5: a refresh returns an access token only when the subject exists and
\* the presented token equals the refresh token persisted on the subject at
\* the moment of the lookup; so at most one token value is accepted per
\* subject at a time, and the persisted value is a token of that subject.
C5_SingleLiveCredential ==
    /\ \A r \in DoneReqs("refresh") :
          areq[r].access # NoToken =>
             /\ areq[r].uid \in DOMAIN users
             /\ areq[r].seen # NoToken
             /\ areq[r].arg = areq[r].seen
             /\ areq[r].access.uid = areq[r].uid
    /\ \A u \in DOMAIN users :
          users[u].refreshToken # NoToken =>
             /\ users[u].refreshToken.typ = "refresh"
             /\ users[u].refreshToken.uid = u

\* a refresh succeeded for a subject after two issues with different tokens
C5_Witness ==
    \E r \in DoneReqs("refresh") : \E l1, l2 \in Issues :
        /\ areq[r].status = 200
        /\ areq[l1].uid = areq[r].uid /\ areq[l2].uid = areq[r].uid
        /\ areq[l1].tok # areq[l2].tok

FailedRefreshes ==
    {i \in DoneReqs("refresh") : areq[i].why \in {"expired", "malformed", "mismatch"}}

C7_LogoutAcks ==
    \A r \in DoneReqs("logout") : areq[r].status \in {200, 204}

C7_LogoutStepIdempotent ==
    (Logout \/ LogoutStep) =>
        /\ \A u \in DOMAIN users :
              users[u].refreshToken = NoToken => users'[u].refreshToken = NoToken
        /\ \A i \in DOMAIN areq :
              (LogoutUnset(i) /\ areq'[i].why # "store")
                  => users'[areq[i].uid].refreshToken = NoToken

C7_LogoutAlwaysAcksIdempotent ==
    /\ []C7_LogoutAcks
    /\ [][C7_LogoutStepIdempotent]_vars

\* the same token was revoked twice, both times acknowledged, and a logout
\* whose store update failed was acknowledged too
C7_Witness ==
    /\ \E i, j \in Revokes :
          /\ i < j
          /\ areq[i].arg = areq[j].arg
          /\ areq[j].seen = NoToken
          /\ areq[i].status = 200 /\ areq[j].status = 200
          /\ users[areq[i].uid].refreshToken = NoToken


\* a login that has answered with its tokens
Issued(r) == r.op = "login" /\ r.pc = "done" /\ r.status \in {200, 201}
\* C21: no two users share a googleId or an email, whatever logins have run
\* and however they interleaved; a login step adds a user only for a
\* googleId and an email no user has; a login that answers with tokens
\* answers with a refresh token that names the _id of the user of its Google
\* account, and the step that writes it leaves it stored on that user.
C21_OneSubject ==
    /\ \A u, v \in DOMAIN users :
          u # v => /\ users[u].googleId # users[v].googleId
                   /\ users[u].email # users[v].email
    /\ \A i \in DOMAIN areq :
          Issued(areq[i]) =>
              /\ areq[i].uid \in DOMAIN users
              /\ users[areq[i].uid].googleId = areq[i].gtok
              /\ areq[i].tok.typ = "refresh" /\ areq[i].tok.uid = areq[i].uid
              /\ areq[i].access.uid = areq[i].uid
C21_IssueStep ==
    /\ Len(users') > Len(users) =>
          /\ Len(users') = Len(users) + 1
          /\ \A u \in DOMAIN users :
                /\ users[u].googleId # users'[Len(users')].googleId
                /\ users[u].email # users'[Len(users')].email
    /\ \A u \in DOMAIN users :
          /\ users'[u].googleId = users[u].googleId
          /\ users'[u].email = users[u].email
    /\ \A i \in DOMAIN areq :
          (~Issued(areq[i]) /\ Issued(areq'[i])) =>
              users'[areq'[i].uid].refreshToken = areq'[i].tok
C21_IssueFindsOrCreates == []C21_OneSubject /\ [][C21_IssueStep]_vars
\* two logins of one new Google account raced: one created the user, the
\* other's User.create was rejected; and the account sharing that email
\* was refused as well
C21_Witness ==
    \E i, j, k \in DOMAIN areq :
        /\ areq[i].gtok = "g1" /\ areq[i].isNew /\ Issued(areq[i])
        /\ areq[j].gtok = "g1" /\ areq[j].isNew /\ areq[j].status = 500
        /\ areq[k].gtok = "g3" /\ areq[k].isNew /\ areq[k].status = 500
        /\ Len(users) = 1

\* C22: the body of no response of login, refresh or GET /users/me holds a
\* refresh token (neither as accessToken nor in the user object), and the
\* refreshToken cookie is set by login only, to the token login stored.
C22_RefreshOnlyByCookie ==
    \A i \in DOMAIN areq :
        LET r == areq[i] IN
        r.op \in {"login", "refresh", "profile"} =>
            /\ r.user.refreshToken = NoToken
            /\ r.access.typ # "refresh"
            /\ r.cookie = "set" =>
                  (r.op = "login" /\ Issued(r) /\ r.tok.typ = "refresh")
\* a login, a refresh and a profile request were answered with the user
\* object while the store held the user's refresh token
C22_Witness ==
    \E i, j, k \in DOMAIN areq :
        /\ Issued(areq[i]) /\ areq[i].cookie = "set"
        /\ areq[i].user.googleId = "g1"
        /\ users[areq[i].uid].refreshToken = areq[i].tok
        /\ areq[j].op = "refresh" /\ areq[j].status = 200
        /\ areq[j].user.googleId = "g1" /\ areq[j].seen = areq[i].tok
        /\ areq[k].op = "profile" /\ areq[k].status = 200
        /\ areq[k].user.googleId = "g1" /\ areq[k].seen = areq[i].tok

\* the token is an access token of a user that has not expired at second t
UnexpiredAccess(tok, t) == tok.typ = "access" /\ tok.uid # 0 /\ t < tok.iat + AccessTTL
\* C29: the HTTP middleware lets a request through, and the socket
\* handshake connects, exactly when the presented token is an access token
\* that has not expired at that second, whatever the user collection holds
\* (a stored refresh token, none after a logout, or no such user); every
\* other token is refused on the spot.
C29_VerifyStep ==
    /\ (Len(areq') = Len(areq) + 1 /\ areq'[Len(areq')].op = "profile") =>
          LET r == areq'[Len(areq')] IN
          IF UnexpiredAccess(r.arg, now)
          THEN r.pc = "pfind" /\ r.uid = r.arg.uid /\ r.status = 0
          ELSE r.pc = "done" /\ r.status = 401
    /\ Len(socks') = Len(socks) + 1 =>
          LET s == socks'[Len(socks')] IN
          IF UnexpiredAccess(s.tok, now)
          THEN s.state = "connected" /\ s.uid = s.tok.uid
          ELSE s.state = "refused" /\ s.uid = 0
C29_StatelessVerification == [][C29_VerifyStep]_vars
\* after a logout removed the user's refresh token, the user's access token
\* passed the middleware and connected a socket
C29_Witness ==
    \E j, k \in DOMAIN areq, s \in DOMAIN socks :
        /\ areq[j].op = "logout" /\ areq[j].pc = "done" /\ areq[j].uid # 0
        /\ areq[j].why = ""
        /\ areq[k].op = "profile" /\ areq[k].status = 200
        /\ areq[k].uid = areq[j].uid /\ areq[k].seen = NoToken
        /\ socks[s].state = "connected" /\ socks[s].uid = areq[j].uid
        /\ users[areq[j].uid].refreshToken = NoToken

Logins == {i \in DOMAIN areq : areq[i].op = "login"}
\* C31: no step of a refresh writes the user collection, so a refresh never
\* puts back what a logout removed; a logout step whose store update takes
\* effect leaves no refresh token on the user; a refresh ends in success
\* only in a step that finds its token still stored; and, where the user
\* logged in once, a refresh that started after a logout of the user had
\* completed is refused and the user has no refresh token.
C31_RaceStep ==
    \A i \in DOMAIN areq :
        /\ (areq[i].op = "refresh" /\ areq'[i] # areq[i]) =>
              /\ users' = users
              /\ areq'[i].status = 200 =>
                    /\ users[areq[i].uid].refreshToken = areq[i].arg
                    /\ areq[i].arg # NoToken
        /\ (areq[i].op = "logout" /\ areq[i].pc = "unset"
                /\ areq'[i].pc = "done" /\ areq'[i].why # "store") =>
              users'[areq[i].uid].refreshToken = NoToken
C31_AfterRevoke ==
    \A r \in DecidedRefreshes : \A j \in Revokes \cap areq[r].before :
        (areq[j].uid = areq[r].uid /\ Cardinality(Logins) = 1) =>
            /\ areq[r].status = 403 /\ areq[r].access = NoToken
            /\ users[areq[r].uid].refreshToken = NoToken
C31_RefreshRacesRevoke == []C31_AfterRevoke /\ [][C31_RaceStep]_vars
\* a refresh and a logout of one user ran concurrently: the refresh started
\* before the logout had completed and succeeded, and the user is left
\* without a refresh token
C31_Witness ==
    \E r \in DoneReqs("refresh") : \E j \in Revokes :
        /\ areq[r].status = 200 /\ areq[r].uid = areq[j].uid
        /\ j \notin areq[r].before /\ j < r
        /\ users[areq[r].uid].refreshToken = NoToken
\* a refresh that started after the user's logout had completed was refused
C31_RefusedAfterRevoke ==
    \E r \in DecidedRefreshes : \E j \in Revokes \cap areq[r].before :
        /\ areq[j].uid = areq[r].uid /\ Cardinality(Logins) = 1
        /\ areq[r].status = 403

\* C33: every step of a refresh, successful or not, leaves the user
\* collection as it was; and a refresh whose token verified and whose store
\* read succeeded ends in success exactly when the stored refresh token is
\* the presented one, however many refreshes that token has served before.
C33_RefreshStep ==
    \A i \in DOMAIN areq :
        /\ (Len(areq') > Len(areq) /\ areq'[Len(areq')].op = "refresh") => users' = users
        /\ (areq[i].op = "refresh" /\ areq'[i] # areq[i]) =>
              /\ users' = users
              /\ areq'[i].why # "store" =>
                    (areq'[i].status = 200 <=>
                        users[areq[i].uid].refreshToken = areq[i].arg)
C33_RefreshDoesNotWrite == [][C33_RefreshStep]_vars
\* one token served two successful refreshes, the later one a second after
\* the token was issued, and is still the stored one
C33_Witness ==
    \E r1, r2 \in DoneReqs("refresh") :
        /\ r1 < r2 /\ r1 \in areq[r2].before
        /\ areq[r1].status = 200 /\ areq[r2].status = 200
        /\ areq[r1].arg = areq[r2].arg
        /\ areq[r2].access.iat > areq[r2].arg.iat
        /\ users[areq[r2].uid].refreshToken = areq[r2].arg

\* C34: a logout step whose token verifies for user S but is not the
\* refresh token stored for S (S has logged in again since) leaves S's
\* stored refresh token as it is.
C34_StaleStep ==
    \A i \in DOMAIN areq :
        (/\ areq[i].op = "logout" /\ areq[i].pc = "unset" /\ areq'[i].pc = "done"
         /\ users[areq[i].uid].refreshToken # NoToken
         /\ users[areq[i].uid].refreshToken # areq[i].arg)
            => users'[areq[i].uid].refreshToken = users[areq[i].uid].refreshToken
C34_StaleLogoutKeepsSession == [][C34_StaleStep]_vars

---------------------------------------------------------------------------
(* Properties of the task handlers *)

UpdateOps == {"update", "wsUpdate"}
DeleteOps == {"delete", "wsDelete"}
WsOps == {"wsUpdate", "wsDelete"}
Count(seq, x) == Cardinality({k \in DOMAIN seq : seq[k] = x})
Logged(r, x) == \E k \in DOMAIN r.log : r.log[k] = x
FirstAt(seq, x) == CHOOSE k \in DOMAIN seq : seq[k] = x /\ \A j \in 1..(k - 1) : seq[j] # x
Finished(r) == r.pc = "done"
\* the success outcome: 200/201 over HTTP, no error event over the socket
Succeeded(r) ==
    Finished(r) /\ IF r.op \in WsOps THEN r.msg = "" ELSE r.status \in {200, 201}
\* the two refusals; the socket handlers have one message for both
NotFoundOutcome(r) ==
    IF r.op \in WsOps THEN r.msg = "Task not found or permission denied"
    ELSE r.status = 404
ForbiddenOutcome(r) ==
    IF r.op \in WsOps THEN r.msg = "Task not found or permission denied"
    ELSE r.status = 403

\* C1: the stored owner of every task equals the owner written at its
\* creation (the requester of the create request), whatever update
\* requests, over HTTP or the socket, have run since.
C1_OwnerImmutable ==
    \A i \in DOMAIN treq :
        (treq[i].op = "create" /\ treq[i].tid # 0)
            => tasks[treq[i].tid].owner = treq[i].uid

\* C2: a step of an update request (HTTP PUT or CLIENT_UPDATE_TASK) made by
\* R for task T changes T's stored record only if T.owner = R; the request
\* ends NotFound when T does not exist, and Forbidden, with T unchanged,
\* when T exists under another owner.
C2_UpdateAuthorized ==
    [][\A i \in DOMAIN treq :
         LET r == treq[i]
             r2 == treq'[i]
             t == r.tid
         IN (r.op \in UpdateOps /\ r2 # r) =>
              /\ (taskLive(t) /\ tasks'[t] # tasks[t]) => tasks[t].owner = r.uid
              /\ (Finished(r2) /\ ~taskLive(t)) => NotFoundOutcome(r2)
              /\ (Finished(r2) /\ taskLive(t) /\ tasks[t].owner # r.uid)
                    => (ForbiddenOutcome(r2) /\ tasks' = tasks)]_vars

\* C3: while task T exists under owner A, a delete request of B # A (HTTP
\* DELETE or CLIENT_DELETE_TASK) that checks its right to T is refused with
\* an authorization failure, and the request leaves T in the store, calls
\* no calendar delete and emits no TASK_DELETED.
C3_RefusedDeleteStep ==
    \A i \in DOMAIN treq :
        LET r == treq[i]
            r2 == treq'[i]
            t == r.tid
        IN (r.op \in DeleteOps /\ r2 # r /\ r.pc \in {"own", "exists"}
                /\ taskLive(t) /\ tasks[t].owner # r.uid) =>
             /\ tasks' = tasks /\ events' = events /\ bcast' = bcast
             /\ r2.log = <<>> /\ r2.out = <<>>
             /\ r2.pc \in {"exists", "done"}
             /\ r.pc = "exists" => Finished(r2)
             /\ Finished(r2) => ForbiddenOutcome(r2)
C3_Refused ==
    \A i \in DOMAIN treq :
        (treq[i].op \in DeleteOps /\ Finished(treq[i]) /\ ~Succeeded(treq[i]))
            => treq[i].log = <<>> /\ treq[i].out = <<>>
C3_NonOwnerDeleteRefused == []C3_Refused /\ [][C3_RefusedDeleteStep]_vars
C3_Witness ==
    \E i \in DOMAIN treq :
        /\ treq[i].op \in DeleteOps /\ Finished(treq[i])
        /\ taskLive(treq[i].tid) /\ tasks[treq[i].tid].owner # treq[i].uid
        /\ ForbiddenOutcome(treq[i]) /\ treq[i].log = <<>>
        /\ \A k \in DOMAIN bcast : bcast[k].ev # "TASK_DELETED"

\* C8: every successful delete (HTTP or socket) of a task whose
\* calendarEventId is set has called deleteCalendarEvent exactly once, with at
\* most one events.delete behind it, and before findByIdAndDelete; and once
\* the call has been made the request, whatever the calendar answered
\* (deleted, 404/410, another error, no client), ends in success with the
\* task removed from the store.
C8_DeleteCallsCalendarOnce ==
    \A i \in DOMAIN treq :
        LET r == treq[i] IN
        /\ (r.op \in DeleteOps /\ Succeeded(r) /\ r.doc.cal # 0) =>
             /\ Count(r.log, "deleteCalendarEvent") = 1
             /\ Count(r.log, "events.delete") <= 1
             /\ Count(r.log, "findByIdAndDelete") = 1
             /\ FirstAt(r.log, "deleteCalendarEvent") < FirstAt(r.log, "findByIdAndDelete")
             /\ Logged(r, "events.delete") =>
                  FirstAt(r.log, "events.delete") < FirstAt(r.log, "findByIdAndDelete")
        /\ (r.op \in DeleteOps /\ Logged(r, "deleteCalendarEvent")) =>
             /\ r.pc \in {"cal_init", "cal_delete", "fad", "done"}
             /\ Finished(r) => (Succeeded(r) /\ ~taskLive(r.tid))
C8_Witness ==
    \E i \in DOMAIN treq :
        /\ treq[i].op \in DeleteOps /\ Succeeded(treq[i])
        /\ treq[i].doc.cal # 0 /\ treq[i].res = "gone"
        /\ ~taskLive(treq[i].tid)

\* C9: when the calendar adapter cannot complete for a create, update or
\* delete (no client can be initialised, or the external call fails) it
\* returns its soft failure value to the handler; the step that returns it
\* leaves the store as the handler's mutation wrote it, and the request ends in
\* success, carrying the task for create and update and with the task removed
\* for delete.
C9_SoftFailureStep ==
    \A i \in DOMAIN treq :
        LET r == treq[i]
            r2 == treq'[i]
        IN (r2 # r /\ r.mirror = "" /\ r2.mirror # "") =>
             /\ r2.mirror \in {"ok", "soft"}
             /\ (r2.mirror = "soft" /\ r.op \in {"create", "update"}) =>
                  /\ Succeeded(r2)
                  /\ IF Logged(r, "save") \/ Logged(r, "findByIdAndUpdate")
                     THEN tasks' = tasks
                     ELSE tasks'[r2.tid] = r2.doc
             /\ (r2.mirror = "soft" /\ r.op \in DeleteOps) =>
                  /\ r2.pc = "fad" /\ tasks' = tasks
C9_SoftFailureOutcome ==
    \A i \in DOMAIN treq :
        (treq[i].mirror # "" /\ Finished(treq[i]) /\ treq[i].op # "create") =>
             /\ Succeeded(treq[i])
             /\ treq[i].op \in DeleteOps => ~taskLive(treq[i].tid)
C9_MirrorFailureNeverFails ==
    []C9_SoftFailureOutcome /\ [][C9_SoftFailureStep]_vars
C9_Witness ==
    \E i \in DOMAIN treq :
        /\ treq[i].op = "update" /\ treq[i].mirror = "soft"
        /\ treq[i].res = "error" /\ Succeeded(treq[i])
        /\ tasks[treq[i].tid].title = treq[i].doc.title

\* C10: an update (HTTP PUT or CLIENT_UPDATE_TASK) whose body carries only
\* status, for a task whose calendarEventId is set, makes no call to the
\* Google Calendar API: no events.get, no events.patch, nor any other.
C10_StatusOnlyNoCalendarCall ==
    \A i \in DOMAIN treq :
        LET r == treq[i] IN
        (r.op \in UpdateOps /\ r.body.has = {"status"} /\ r.doc.cal # 0) =>
            \A k \in DOMAIN r.log :
                r.log[k] \notin {"events.get", "events.patch", "events.insert",
                                 "events.delete"}
C10_Witness ==
    \E i \in DOMAIN treq :
        /\ treq[i].op = "update" /\ treq[i].body.has = {"status"}
        /\ treq[i].doc.cal # 0 /\ Succeeded(treq[i])
        /\ Logged(treq[i], "updateCalendarEvent")
        /\ tasks[treq[i].tid].status = "done"

\* C11: every successful update, over HTTP or as CLIENT_UPDATE_TASK, whose
\* body carries title, description or deadline, for a task whose
\* calendarEventId is set, has called updateCalendarEvent after its store
\* write and before its TASK_UPDATED broadcast.
StoreWriteAt(r) ==
    IF r.op = "update" THEN FirstAt(r.log, "findByIdAndUpdate")
    ELSE FirstAt(r.log, "save")
C11_MirrorUpdateOnEverySurface ==
    \A i \in DOMAIN treq :
        LET r == treq[i] IN
        (r.op \in UpdateOps /\ Succeeded(r) /\ r.doc.cal # 0
            /\ r.body.has \cap {"title", "description", "deadline"} # {}) =>
          /\ Logged(r, "updateCalendarEvent")
          /\ StoreWriteAt(r) < FirstAt(r.log, "updateCalendarEvent")
          /\ Logged(r, "TASK_UPDATED") =>
               FirstAt(r.log, "updateCalendarEvent") < FirstAt(r.log, "TASK_UPDATED")

\* C19: client initialisation is single-flight: at no time is more than one
\* run of initializeCalendarClient (credential load and authorize) in
\* progress, counting the run started at module load and the runs started by
\* adapter operations that found no client.
InitsInFlight ==
    Cardinality({i \in DOMAIN treq : treq[i].pc = "cal_init"})
        + (IF boot = "authorizing" THEN 1 ELSE 0)
C19_SingleFlightInit ==
    InitsInFlight <= 1

\* C12: the event a create sends to the calendar starts at the task's
\* createdAt and ends at the deadline when the deadline is at least five
\* minutes after the start, and exactly five minutes after the start
\* otherwise; its window is never shorter than five minutes.
FiveMinutes == 300000
InsertedBy(i) ==
    /\ treq[i].op = "create" /\ treq[i].pc = "cal_insert"
    /\ treq'[i].pc # "cal_insert"
    /\ Len(events') = Len(events) + 1
C12_InsertStep ==
    \A i \in DOMAIN treq :
        InsertedBy(i) =>
            LET e == events'[Len(events')]
                d == treq[i].doc IN
            /\ e.start = d.createdAt
            /\ e.end = IF d.deadline >= e.start + FiveMinutes THEN d.deadline
                       ELSE e.start + FiveMinutes
            /\ e.end - e.start >= FiveMinutes
C12_CreateClampsWindow == [][C12_InsertStep]_vars
\* a task whose deadline is its creation time got an event of five minutes,
\* and tasks one millisecond below, at and above the threshold got theirs
C12_Witness ==
    /\ \E i \in DOMAIN treq :
        /\ treq[i].op = "create" /\ treq[i].ev # 0 /\ Succeeded(treq[i])
        /\ treq[i].doc.deadline = treq[i].doc.createdAt
        /\ events[treq[i].ev].end = events[treq[i].ev].start + FiveMinutes
    /\ \E j \in DOMAIN treq :
        /\ treq[j].op = "create" /\ treq[j].ev # 0 /\ Succeeded(treq[j])
        /\ treq[j].doc.deadline = treq[j].doc.createdAt + FiveMinutes + 1
        /\ events[treq[j].ev].end = treq[j].doc.deadline

\* C13: when subject A, who created task T without an assignee (so that
\* T's assignee is A), updates T's deadline over HTTP to a time in the past
\* and the update succeeds with the mirror working, then the task returned
\* from the store has the new deadline, the mirrored event ends five minutes
\* after its start, and a TASK_UPDATED broadcast carrying the updated task
\* has gone out to the connected clients.
PastDeadlineUpdateEnds(i) ==
    /\ treq[i].op = "update" /\ ~Finished(treq[i]) /\ Succeeded(treq'[i])
    /\ "deadline" \in treq[i].body.has
    /\ deadlineOf(treq[i].body.v) < now * 1000
    /\ treq'[i].doc.owner = treq[i].uid
    /\ treq'[i].doc.assignee = treq[i].uid
    /\ treq'[i].doc.cal # 0 /\ treq'[i].mirror = "ok"
C13_EndToEndStep ==
    \A i \in DOMAIN treq :
        PastDeadlineUpdateEnds(i) =>
            LET r2 == treq'[i] IN
            /\ r2.doc.deadline = deadlineOf(r2.body.v)
            /\ events'[r2.doc.cal].end = events'[r2.doc.cal].start + FiveMinutes
            /\ \E k \in DOMAIN r2.out :
                 /\ r2.out[k].ev = "TASK_UPDATED"
                 /\ r2.out[k].doc = r2.doc
            /\ \E k \in DOMAIN bcast' :
                 bcast'[k] = [ev |-> "TASK_UPDATED", tid |-> r2.tid, doc |-> r2.doc]
C13_EndToEndUpdate == [][C13_EndToEndStep]_vars

\* C14: every create that saved its task and has ended has emitted exactly
\* one TASK_UPDATED broadcast, carrying the created task, whether the
\* calendar mirror succeeded or failed.
C14_CreateAlwaysBroadcasts ==
    \A i \in DOMAIN treq :
        LET r == treq[i] IN
        (r.op = "create" /\ Finished(r) /\ Logged(r, "save")) =>
            /\ Count(r.log, "TASK_UPDATED") = 1
            /\ \E k \in DOMAIN r.out :
                 r.out[k] = [ev |-> "TASK_UPDATED", tid |-> r.tid, doc |-> r.doc]
            /\ \E k \in DOMAIN bcast :
                 bcast[k] = [ev |-> "TASK_UPDATED", tid |-> r.tid, doc |-> r.doc]

\* the payload of r names an assignee by an email that no user has
UnknownAssignee(r) ==
    /\ r.body.email # ""
    /\ \A u \in DOMAIN users : users[u].email # r.body.email
NoEffectStep(i) ==
    /\ tasks' = tasks /\ events' = events /\ bcast' = bcast
    /\ treq'[i].log = <<>> /\ treq'[i].out = <<>>
    /\ Finished(treq'[i]) => ~Succeeded(treq'[i])
NoEffectSoFar(r) ==
    /\ r.log = <<>> /\ r.out = <<>>
    /\ Finished(r) => ~Succeeded(r)
\* C15: a create or an update, on whatever surface it arrives, whose
\* payload carries an assignee email that resolves to no user never ends in
\* success, and none of its steps changes the task store, the calendar or
\* the broadcast stream or calls the store or the calendar adapter.
C15_AnySurfaceStep ==
    \A i \in DOMAIN treq :
        (treq[i].op \in {"create"} \cup UpdateOps /\ UnknownAssignee(treq[i])
            /\ treq'[i] # treq[i]) => NoEffectStep(i)
C15_HttpStep ==
    \A i \in DOMAIN treq :
        (treq[i].op \in {"create", "update"} /\ UnknownAssignee(treq[i])
            /\ treq'[i] # treq[i]) => NoEffectStep(i)
C15_HttpSoFar ==
    \A i \in DOMAIN treq :
        (treq[i].op \in {"create", "update"} /\ UnknownAssignee(treq[i]))
            => NoEffectSoFar(treq[i])
Resolves(email, u) == u \in DOMAIN users /\ users[u].email = email
C16_AssigneeStep ==
    \A i \in DOMAIN treq :
        LET r == treq[i]
            r2 == treq'[i]
            t == r.tid
        IN (r.op \in UpdateOps /\ r2 # r) =>
             /\ (taskLive(t) /\ tasks'[t].assignee # tasks[t].assignee) =>
                    /\ r.body.email # ""
                    /\ Resolves(r.body.email, tasks'[t].assignee)
             /\ (r.body.email = "" /\ Finished(r2)) =>
                    /\ r2.status # 400
                    /\ (Succeeded(r2) /\ "status" \in r.body.has) =>
                           r2.doc.status = statusOf(r.body.v)
C16_AssigneeUpdatePolicy == [][C16_AssigneeStep]_vars

\* C18: a realtime update or delete event is refused exactly when the task
\* is not one owned by the subject of the connection, whatever the payload
\* holds; an accepted update changes nothing but title, status and deadline
\* as the payload gives them, so that payloads differing only in owner or
\* other identity fields lead to the same store, calendar and broadcasts.
PermittedUpdate(doc, b) ==
    [doc EXCEPT !.title = IF "title" \in b.has THEN b.v ELSE @,
                !.status = IF "status" \in b.has
                           THEN (IF b.v = 1 THEN "todo" ELSE "done") ELSE @,
                !.deadline = IF "deadline" \in b.has THEN deadlineOf(b.v) ELSE @]
C18_SocketStep ==
    \A i \in DOMAIN treq :
        LET r == treq[i]
            r2 == treq'[i]
            t == r.tid
            mine == taskLive(t) /\ tasks[t].owner = r.uid
        IN (r.op \in WsOps /\ r2 # r) =>
             /\ r.pc = "own" =>
                  /\ (Finished(r2) /\ ~Succeeded(r2)) <=> ~mine
                  /\ tasks' = tasks /\ bcast' = bcast
                  /\ (mine /\ r.op = "wsUpdate") =>
                        r2.doc = PermittedUpdate(tasks[t], r.body)
             /\ (r.op = "wsUpdate" /\ r.pc = "wsave" /\ taskLive(t)) =>
                  /\ \A u \in DOMAIN tasks : u # t => tasks'[u] = tasks[u]
                  /\ \A f \in DOMAIN tasks[t] :
                        \/ tasks'[t][f] = tasks[t][f]
                        \/ /\ f \in {"title", "status", "deadline"}
                           /\ tasks'[t][f] = PermittedUpdate(tasks[t], r.body)[f]
                  /\ tasks'[t].owner = r.uid
                  /\ events' = events
                  /\ bcast' = Append(bcast, [ev |-> "TASK_UPDATED", tid |-> t,
                                             doc |-> r.doc])
C18_SubjectFromConnection == [][C18_SocketStep]_vars
C18_Witness ==
    \E i \in DOMAIN treq :
        /\ treq[i].op = "wsUpdate" /\ Succeeded(treq[i])
        /\ "owner" \in treq[i].body.has
        /\ treq[i].uid # bodyOwner
        /\ taskLive(treq[i].tid) /\ tasks[treq[i].tid].owner = treq[i].uid
        /\ tasks[treq[i].tid].status = "done"

\* C17: every established connection was admitted on a credential that
\* verified, at the time the connection was established, as an unexpired
\* access token, and has that token's subject attached; every refused
\* connection was given a reason.  This covers the connections
\* re-established through connection-state recovery.
Admitted(s) ==
    /\ s.uid # 0 /\ s.uid = s.tok.uid
    /\ jwtVerify(s.tok, "access", AccessTTL, s.at) = "ok"
C17_RealtimeHandshake ==
    \A k \in DOMAIN socks :
        /\ socks[k].state = "connected" => Admitted(socks[k])
        /\ socks[k].state = "refused" => socks[k].reason # ""
        /\ socks[k].state \in {"connected", "disconnected", "refused"}

\* C20: the answer of a list request of R holds exactly the stored tasks
\* whose owner is R, each once, in the order of their creation times,
\* newest first.
C20_ListStep ==
    \A i \in DOMAIN treq :
        LET r == treq[i]
            l == treq'[i].list
        IN (r.op = "list" /\ ~Finished(r) /\ Finished(treq'[i])) =>
             /\ {l[k] : k \in DOMAIN l} =
                    {t \in DOMAIN tasks : tasks[t].live /\ tasks[t].owner = r.uid}
             /\ \A a, b \in DOMAIN l : a # b => l[a] # l[b]
             /\ \A a, b \in DOMAIN l :
                    a < b => tasks[l[a]].createdAt >= tasks[l[b]].createdAt
C20_ListOwnedNewestFirst == [][C20_ListStep]_vars

\* C30: the second store write of a create, made when createCalendarEvent
\* returned an id, sets the stored task's calendarEventId to that id and
\* leaves every other stored field, and every other task, as it was in the
\* store just before the write.
SecondWrite(i) ==
    /\ treq[i].op = "create" /\ treq[i].pc = "save2" /\ treq'[i] # treq[i]
    /\ taskLive(treq[i].tid)
C30_SecondWriteStep ==
    \A i \in DOMAIN treq :
        SecondWrite(i) =>
            /\ treq[i].ev # 0
            /\ tasks' = [tasks EXCEPT ![treq[i].tid].cal = treq[i].ev]
C30_SecondWriteOnlyAddsReference == [][C30_SecondWriteStep]_vars
\* C30 with the update timestamp set aside: the second write sets
\* calendarEventId and updatedAt and nothing else
C30_DataStep ==
    \A i \in DOMAIN treq :
        SecondWrite(i) =>
            /\ treq[i].ev # 0
            /\ tasks' = [tasks EXCEPT ![treq[i].tid].cal = treq[i].ev,
                                      ![treq[i].tid].updatedAt = now * 1000]
C30_SecondWriteKeepsData == [][C30_DataStep]_vars
\* an update was applied between the two writes of a create, a second
\* before the later one, and is still in the store after it
C30_Witness ==
    \E i, j \in DOMAIN treq :
        /\ treq[i].op = "create" /\ Succeeded(treq[i]) /\ treq[i].ev # 0
        /\ treq[j].op \in UpdateOps /\ Succeeded(treq[j])
        /\ treq[j].tid = treq[i].tid /\ treq[j].doc.cal = 0
        /\ treq[i].doc.status = "todo"
        /\ tasks[treq[i].tid].status = "done"
        /\ tasks[treq[i].tid].cal = treq[i].ev
        /\ tasks[treq[i].tid].updatedAt > treq[j].doc.updatedAt

\* C24: no step of an update, over HTTP or the socket, changes the stored
\* calendarEventId or createdAt of a task, or which tasks the store holds,
\* whatever protected keys the payload names.
C24_ProtectedStep ==
    \A i \in DOMAIN treq :
        (treq[i].op \in UpdateOps /\ treq'[i] # treq[i]) =>
            /\ DOMAIN tasks' = DOMAIN tasks
            /\ \A t \in DOMAIN tasks :
                 /\ tasks'[t].cal = tasks[t].cal
                 /\ tasks'[t].createdAt = tasks[t].createdAt
                 /\ tasks'[t].live = tasks[t].live
C24_ProtectedFieldsStripped == [][C24_ProtectedStep]_vars

\* the three stages of a request, as the calls its handler logs
AppliedCall(r) ==
    CASE r.op = "update" -> "findByIdAndUpdate"
      [] r.op \in DeleteOps -> "findByIdAndDelete"
      [] OTHER -> "save"
MirroredCall(r) ==
    CASE r.op = "create" -> "createCalendarEvent"
      [] r.op = "update" -> "updateCalendarEvent"
      [] OTHER -> "deleteCalendarEvent"
BroadcastCall(r) == IF r.op \in DeleteOps THEN "TASK_DELETED" ELSE "TASK_UPDATED"
\* y was logged only after x was
Precedes(r, x, y) ==
    Logged(r, y) => (Logged(r, x) /\ FirstAt(r.log, x) < FirstAt(r.log, y))
\* C23: in every create, update and delete request the store mutation
\* precedes the adapter call, which precedes the broadcast, and no broadcast
\* is emitted before the store mutation.
C23_AppliedMirroredBroadcast ==
    \A i \in DOMAIN treq :
        LET r == treq[i] IN
        /\ Precedes(r, AppliedCall(r), MirroredCall(r))
        /\ Precedes(r, AppliedCall(r), BroadcastCall(r))
        /\ Logged(r, MirroredCall(r)) => Precedes(r, MirroredCall(r), BroadcastCall(r))
\* C23 as the handlers order the stages: create and update apply, mirror,
\* broadcast; delete mirrors first, then applies, then broadcasts
C23_StageOrder ==
    \A i \in DOMAIN treq :
        LET r == treq[i] IN
        /\ IF r.op \in DeleteOps
           THEN Logged(r, MirroredCall(r)) =>
                    Precedes(r, MirroredCall(r), AppliedCall(r))
           ELSE Precedes(r, AppliedCall(r), MirroredCall(r))
        /\ Precedes(r, AppliedCall(r), BroadcastCall(r))
        /\ Logged(r, MirroredCall(r)) => Precedes(r, MirroredCall(r), BroadcastCall(r))
        /\ Logged(r, BroadcastCall(r)) => r.log[Len(r.log)] = BroadcastCall(r)
C23_Witness ==
    \E i, j \in DOMAIN treq :
        /\ treq[i].op = "create" /\ Succeeded(treq[i])
        /\ Logged(treq[i], "createCalendarEvent") /\ Logged(treq[i], "TASK_UPDATED")
        /\ treq[j].op \in DeleteOps /\ Succeeded(treq[j])
        /\ Logged(treq[j], "deleteCalendarEvent") /\ Logged(treq[j], "TASK_DELETED")

\* request i's events.patch answers, for an update that carries a deadline
PatchedDeadline(i) ==
    /\ treq[i].op = "update" /\ treq[i].pc = "cal_patch"
    /\ "deadline" \in treq[i].body.has
    /\ treq'[i].pc # "cal_patch" /\ treq'[i].res = "ok"
\* C25: the patch of an update that carries a deadline follows an events.get
\* of the same call, and sets the event's end to the deadline when that is
\* at least five minutes after the start the calendar holds, and to that
\* start plus five minutes otherwise; the start is left alone and the window
\* is never shorter than five minutes.
C25_PatchStep ==
    \A i \in DOMAIN treq :
        PatchedDeadline(i) =>
            LET e == treq[i].ev
                d == deadlineOf(treq[i].body.v) IN
            /\ Logged(treq[i], "events.get")
            /\ FirstAt(treq[i].log, "updateCalendarEvent")
                   < FirstAt(treq[i].log, "events.get")
            /\ events'[e].start = events[e].start
            /\ events'[e].end = IF d >= events[e].start + FiveMinutes THEN d
                                ELSE events[e].start + FiveMinutes
            /\ events'[e].end >= events'[e].start + FiveMinutes
C25_UpdateClampsAgainstStart == [][C25_PatchStep]_vars
\* an update moved the deadline to a millisecond short of five minutes
\* after the start and the event now ends five minutes after its start
C25_Witness ==
    /\ \E i \in DOMAIN treq :
        /\ treq[i].op = "update" /\ Succeeded(treq[i]) /\ treq[i].mirror = "ok"
        /\ events[treq[i].ev].start < treq[i].doc.deadline
        /\ treq[i].doc.deadline < events[treq[i].ev].start + FiveMinutes
        /\ events[treq[i].ev].end = events[treq[i].ev].start + FiveMinutes

\* updateCalendarEvent returns to request i, which gave it a title and a
\* deadline, without having obtained the event's start: events.get failed,
\* or it answered an event without start.dateTime and the patch that
\* followed, if any, was accepted
ReturnsWithoutStart(i) ==
    /\ treq[i].op = "update" /\ {"title", "deadline"} \subseteq treq[i].body.has
    /\ treq[i].mirror = "" /\ treq'[i].mirror # ""
    /\ Logged(treq'[i], "events.get") /\ treq'[i].end = 0
    /\ ~(treq[i].pc = "cal_patch" /\ treq'[i].res = "error")
\* C26: when updateCalendarEvent is given a deadline and a title and cannot
\* obtain the event's current start (events.get fails, or the event has no
\* start time), it leaves the event's end as it was, has patched the title,
\* and returns false.
C26_ReturnStep ==
    \A i \in DOMAIN treq :
        ReturnsWithoutStart(i) =>
            LET e == treq[i].ev IN
            /\ events'[e].end = events[e].end
            /\ events'[e].summary = titleOf(treq[i].body.v)
            /\ treq'[i].mirror = "soft"
C26_NoStartSkipsTimeOnly == [][C26_ReturnStep]_vars

AdapterCalls == {"createCalendarEvent", "updateCalendarEvent", "deleteCalendarEvent"}
\* request i calls an adapter operation in this step
CallsAdapter(i) ==
    /\ i \in DOMAIN treq
    /\ \A c \in AdapterCalls : ~Logged(treq[i], c)
    /\ \E c \in AdapterCalls : Logged(treq'[i], c)
\* request i's initialisation attempt ends in this step
InitAttemptEnds(i) ==
    /\ i \in DOMAIN treq /\ treq[i].pc = "cal_init" /\ treq'[i].pc # "cal_init"
    /\ Count(treq'[i].log, "authorize") = Count(treq[i].log, "authorize") + 1
\* C27: once the initialisation at module load has failed, the client
\* handle is set again only by the initialisation attempt of an adapter
\* operation; every adapter operation called while there is no client makes
\* such an attempt; and when the attempt succeeds the operation goes on to
\* its calendar call.
C27_RetryStep ==
    /\ (boot = "done" /\ calendar = "null" /\ calendar' # "null")
          => \E i \in DOMAIN treq : InitAttemptEnds(i)
    /\ \A i \in DOMAIN treq :
          /\ (CallsAdapter(i) /\ calendar = "null" /\ configured)
                => (treq'[i].pc = "cal_init" /\ treq'[i].mirror = "")
          /\ (InitAttemptEnds(i) /\ calendar' # "null") =>
                /\ treq'[i].mirror = ""
                /\ treq'[i].pc = CASE treq[i].op = "create" -> "cal_insert"
                                   [] treq[i].op = "update" -> "cal_get"
                                   [] OTHER -> "cal_delete"
C27_LazyRetry == [][C27_RetryStep]_vars
\* a create whose initialisation attempt failed was followed by an
\* operation whose attempt succeeded and whose calendar call went through
C27_Witness ==
    \E i, j \in DOMAIN treq :
        /\ i < j /\ boot = "done"
        /\ treq[i].op = "create" /\ Logged(treq[i], "authorize")
        /\ treq[i].mirror = "soft" /\ ~Logged(treq[i], "events.insert")
        /\ Logged(treq[j], "authorize") /\ treq[j].mirror = "ok"
        /\ calendar = "client"

\* C28: a request whose calendar call never returns is completed all the
\* same: it is eventually answered (and, where the handler broadcasts, its
\* broadcast has gone out by then).
C28_HungCallIsAbandoned ==
    \A i \in 1..MaxTaskReqs :
        (i \in DOMAIN treq /\ treq[i].pc = "hung") ~>
            (i \in DOMAIN treq /\ treq[i].pc = "done" /\ treq[i].mirror = "soft")

\* C35: the calendarEventId of every stored task is absent or the id that
\* createCalendarEvent returned to the create request of that task, and no
\* two tasks in the store carry the same calendarEventId.
C35_MirrorReferenceProvenance ==
    /\ \A t \in DOMAIN tasks :
          tasks[t].cal # 0 =>
              \E i \in DOMAIN treq :
                  /\ treq[i].op = "create" /\ treq[i].tid = t
                  /\ treq[i].mirror = "ok" /\ treq[i].ev = tasks[t].cal
    /\ \A t1, t2 \in DOMAIN tasks :
          (t1 # t2 /\ taskLive(t1) /\ taskLive(t2) /\ tasks[t1].cal # 0)
              => tasks[t1].cal # tasks[t2].cal

\* C36: once every request has completed and no calendar call has failed,
\* every event in the calendar is the calendarEventId of a task in the
\* store.
C36_NoOrphanedEvent ==
    (\A i \in DOMAIN treq :
        Finished(treq[i]) /\ treq[i].mirror # "soft" /\ treq[i].res # "error")
      => \A e \in DOMAIN events :
            events[e].live => \E t \in DOMAIN tasks : taskLive(t) /\ tasks[t].cal = e

\* C37: among the broadcasts emitted for a task, no TASK_UPDATED comes after
\* a TASK_DELETED.
C37_NoUpdateAfterDelete ==
    \A k, l \in DOMAIN bcast :
        (k < l /\ bcast[k].ev = "TASK_DELETED" /\ bcast[k].tid = bcast[l].tid)
            => bcast[l].ev # "TASK_UPDATED"

\* C38: once two overlapping updates of a task have both completed, the last
\* TASK_UPDATED emitted for the task carries the stored field values.
LastUpdated(t) ==
    LET ks == {k \in DOMAIN bcast :
                  bcast[k].ev = "TASK_UPDATED" /\ bcast[k].tid = t}
    IN bcast[CHOOSE k \in ks : \A l \in ks : l <= k]
C38_LastBroadcastMatchesStore ==
    \A t \in DOMAIN tasks :
        ( /\ Len(treq) = 2
          /\ \A i \in DOMAIN treq :
                /\ treq[i].op \in UpdateOps /\ treq[i].tid = t
                /\ Finished(treq[i]) /\ treq[i].status \in {0, 200}
                /\ treq[i].msg = ""
          /\ \E k \in DOMAIN bcast :
                bcast[k].ev = "TASK_UPDATED" /\ bcast[k].tid = t )
        => \A f \in {"title", "status", "deadline", "assignee"} :
               LastUpdated(t).doc[f] = tasks[t][f]

\* C39: a step of a socket handler changes the task collection only while
\* the access token presented at the connection's handshake is unexpired
\* (SpecRealtime has one connection, on which every event arrives).
C39_MutationNeedsLiveToken ==
    [][tasks' # tasks =>
          \E k \in DOMAIN socks :
              jwtVerify(socks[k].tok, "access", AccessTTL, now) = "ok"]_vars

\* an event is taken up by a handler of a connection whose token has expired
C39_EventAfterExpiry ==
    [][Len(treq') > Len(treq) =>
          \E k \in DOMAIN socks :
              jwtVerify(socks[k].tok, "access", AccessTTL, now) = "ok"]_vars

\* C32: once an initialisation has set the calendar client handle, no step
\* resets it to null.
C32_ReadyIsAbsorbing ==
    [][calendar = "client" => calendar' = "client"]_vars
=============================================================================
